---- MODULE Spec2Model ----
(***************************************************************************)
(* ConfigDB database generator (tools/dbgen.py): integer width deduction,  *)
(* the string table, property construction, schema parsing, the layout     *)
(* emitted by generate_typeinfo and the streams of generate_database.      *)
(*                                                                         *)
(* Python integers are unbounded; the integers of this model are TLC's     *)
(* 32-bit ones.  Every integer the model draws lies in [-2^31, 2^31 - 1],  *)
(* and a power of two from 2^31 up is never computed: a comparison with it *)
(* is decided by that range (see lt_typemin, gt_typemax).                  *)
(***************************************************************************)
EXTENDS Integers, Sequences, FiniteSets, TLC

VARIABLES
    pc,         \* position of the running operation
    minval,     \* IntRange.deduce: argument
    maxval,     \* IntRange.deduce: argument
    r,          \* IntRange.deduce: the IntRange being widened
    keys,       \* StringTable.keys
    values,     \* StringTable.values
    returned,   \* per value looked up: every (index, identifier) it was given
    fields,     \* parse_property: the schema fragment of the property
    prop,       \* parse_property: the Property constructed
    properties, \* Object.properties of the parent object
    cfgfiles,   \* the documents given: each a name and its content
    schema,     \* the dicts of the loaded schemas, by number
    objects,    \* the Databases and the Objects made, by number
    props,      \* the Property instances made, by number
    attached,   \* the ObjectProperty instances made, each with its dicts
    walked,     \* the dicts an Object was made from
    merges,     \* the scalar properties made from a reference
    error,      \* the exception that ended the run
    typeinfo,   \* the ObjectInfo generate_typeinfo made
    output,     \* what each call of generate_database returned, in order
    files       \* the files written, in order

vars == <<pc, minval, maxval, r, keys, values, returned, fields, prop, properties,
          cfgfiles, schema, objects, props, attached, walked, merges, error,
          typeinfo, output, files>>

parseVars == <<cfgfiles, schema, objects, props, attached, walked, merges, error,
          typeinfo, output, files>>

deduceVars == <<minval, maxval, r>>

stringVars == <<keys, values, returned>>

propVars == <<fields, prop, properties>>

-----------------------------------------------------------------------------
(* IntRange                                                                *)

\* 2^n - 1 and -(2^n) are integers of the model.
IsPow(n) == n < 32

\* IntRange.typemin; -(2 ** (bits - 1)) is computed as (-(2 ** (bits - 2))) * 2,
\* which keeps 2^31 out of the computation of -2^31
typemin(self) ==
    IF self.is_signed THEN (-(2 ^ (self.bits - 2))) * 2 ELSE 0

\* IntRange.typemax; (2 ** bits) - 1 is computed as (2 ** (bits - 1) - 1) * 2 + 1,
\* which keeps 2^31 out of the computation of 2^31 - 1
typemax(self) ==
    LET bits == IF self.is_signed THEN self.bits - 1 ELSE self.bits
    IN  ((2 ^ (bits - 1)) - 1) * 2 + 1

\* `minval < r.typemin`; a typemin below -2^31 is below every integer of the
\* model.
lt_typemin(v, self) ==
    /\ self.is_signed
    /\ IsPow(self.bits - 1)
    /\ v < typemin(self)

\* `maxval > r.typemax`; a typemax above 2^31 - 1 is above every integer of
\* the model.
gt_typemax(v, self) ==
    LET bits == IF self.is_signed THEN self.bits - 1 ELSE self.bits
    IN  /\ IsPow(bits)
        /\ v > typemax(self)

\* IntRange(minimum, maximum, is_signed, bits)
IntRange(minimum, maximum, is_signed, bits) ==
    [minimum |-> minimum, maximum |-> maximum, is_signed |-> is_signed, bits |-> bits]

\* The loop condition with `and` for `or`
deduce_widen_and(mn, mx, self) ==
    lt_typemin(mn, self) /\ gt_typemax(mx, self)

\* The loop condition of IntRange.deduce
deduce_widen(mn, mx, self) ==
    lt_typemin(mn, self) \/ gt_typemax(mx, self)

\* IntRange.deduce starting at 16 bits
deduce_first_16(mn, mx) ==
    [minimum |-> mn, maximum |-> mx, is_signed |-> mn < 0, bits |-> 16]

\* The first IntRange built by IntRange.deduce
deduce_first(mn, mx) ==
    IntRange(mn, mx, mn < 0, 8)

RECURSIVE deduce_loop(_, _, _)
deduce_loop(mn, mx, self) ==
    IF deduce_widen(mn, mx, self)
    THEN deduce_loop(mn, mx, [self EXCEPT !.bits = @ * 2])
    ELSE self

\* IntRange.deduce, as a function
deduce(mn, mx) ==
    deduce_loop(mn, mx, deduce_first(mn, mx))

\* IntRange.ctype
ctype_of(self) ==
    IF self.is_signed
    THEN "int" \o ToString(self.bits) \o "_t"
    ELSE "uint" \o ToString(self.bits) \o "_t"

\* IntRange.property_type
property_type_of(self) ==
    IF self.is_signed
    THEN "Int" \o ToString(self.bits)
    ELSE "UInt" \o ToString(self.bits)

STRING_ID_SIZE == 2

ARRAY_ID_SIZE == 2

\* CPP_TYPESIZES
CPP_TYPESIZES ==
    [t \in {"bool", "int8_t", "int16_t", "int32_t", "int64_t",
            "uint8_t", "uint16_t", "uint32_t", "uint64_t",
            "ConfigDB::Number", "String"} |->
        CASE t = "bool" -> 1
          [] t = "int8_t" -> 1
          [] t = "int16_t" -> 2
          [] t = "int32_t" -> 4
          [] t = "int64_t" -> 8
          [] t = "uint8_t" -> 1
          [] t = "uint16_t" -> 2
          [] t = "uint32_t" -> 4
          [] t = "uint64_t" -> 8
          [] t = "ConfigDB::Number" -> 4
          [] t = "String" -> STRING_ID_SIZE]

\* The integers IntRange.deduce is run on: the limits of every width up to
\* 32 bits and their neighbours.
MinInt == -2147483647 - 1

IntValues ==
    {MinInt, -2147483647, -32769, -32768, -129, -128, -1,
     0, 1, 127, 128, 255, 256, 300, 32767, 32768, 65535, 65536, 2147483647}

-----------------------------------------------------------------------------
(* StringTable.  A string is a sequence of one-character strings.          *)

MAX_STRINGID_LEN == 32

Lower ==
    <<"a", "b", "c", "d", "e", "f", "g", "h", "i", "j", "k", "l", "m",
      "n", "o", "p", "q", "r", "s", "t", "u", "v", "w", "x", "y", "z">>

Upper ==
    <<"A", "B", "C", "D", "E", "F", "G", "H", "I", "J", "K", "L", "M",
      "N", "O", "P", "Q", "R", "S", "T", "U", "V", "W", "X", "Y", "Z">>

Digits ==
    <<"0", "1", "2", "3", "4", "5", "6", "7", "8", "9">>

Elements(f) == {f[i] : i \in DOMAIN f}

\* [A-Za-z0-9]
IsAlnum(c) == c \in Elements(Lower) \cup Elements(Upper) \cup Elements(Digits)

\* str.upper() of one character
upper(c) ==
    IF c \in Elements(Lower)
    THEN Upper[CHOOSE i \in DOMAIN Lower : Lower[i] = c]
    ELSE c

\* str(n) of an integer n >= 0
RECURSIVE str(_)
str(n) ==
    IF n < 10 THEN <<Digits[n + 1]>>
    ELSE str(n \div 10) \o <<Digits[(n % 10) + 1]>>

\* s[:n]
Truncate(s, n) == IF Len(s) <= n THEN s ELSE SubSeq(s, 1, n)

\* re.sub(r'[^A-Za-z0-9]+', '_', s): every run of other characters becomes
\* one underscore.
RECURSIVE sub_non_alnum(_, _)
sub_non_alnum(s, in_run) ==
    IF s = <<>> THEN <<>>
    ELSE IF IsAlnum(Head(s)) THEN <<Head(s)>> \o sub_non_alnum(Tail(s), FALSE)
    ELSE IF in_run THEN sub_non_alnum(Tail(s), TRUE)
    ELSE <<"_">> \o sub_non_alnum(Tail(s), TRUE)

\* The loop of make_identifier over the substituted string.
RECURSIVE camel(_, _)
camel(s, up) ==
    IF s = <<>> THEN <<>>
    ELSE IF Head(s) \in {"-", "_"} THEN camel(Tail(s), TRUE)
    ELSE <<(IF up THEN upper(Head(s)) ELSE Head(s))>> \o camel(Tail(s), FALSE)

\* make_identifier(s, is_type)
make_identifier(s, is_type) ==
    camel(sub_non_alnum(s, FALSE), is_type)

\* list.index(x), from 0; -1 for the ValueError of a missing value
RECURSIVE index_from(_, _, _)
index_from(list, x, i) ==
    IF i > Len(list) THEN -1
    ELSE IF list[i] = x THEN i - 1
    ELSE index_from(list, x, i + 1)

\* list.index(x) that starts at the second entry
index_skip_first(list, x) == index_from(list, x, 2)

index(list, x) == index_from(list, x, 1)

\* f'{ident}_{i}'
suffixed(ident, i) == ident \o <<"_">> \o str(i)

\* i = 0; while f'{ident}_{i}' in self.keys: i += 1
RECURSIVE free_suffix(_, _, _)
free_suffix(ks, ident, i) ==
    IF suffixed(ident, i) \in Elements(ks)
    THEN free_suffix(ks, ident, i + 1)
    ELSE i

\* The identifier taken as made, without the search for a free suffix
new_ident_unchecked(ks, vs, value) ==
    LET made == Truncate(make_identifier(value, FALSE), MAX_STRINGID_LEN)
    IN  IF made = <<>> THEN str(Len(vs)) ELSE made

\* The identifier StringTable.get_index appends for a value it does not hold.
new_ident(ks, vs, value) ==
    LET made  == Truncate(make_identifier(value, FALSE), MAX_STRINGID_LEN)
        ident == IF made = <<>> THEN str(Len(vs)) ELSE made
    IN  IF ident \in Elements(ks)
        THEN suffixed(ident, free_suffix(ks, ident, 0))
        ELSE ident

\* StringTable.get_index(value): the table after the call and the index returned.
get_index(ks, vs, value) ==
    IF index(vs, value) >= 0
    THEN [keys |-> ks, values |-> vs, index |-> index(vs, value)]
    ELSE [keys |-> Append(ks, new_ident(ks, vs, value)),
          values |-> Append(vs, value),
          index |-> Len(ks)]

STRING_PREFIX == <<"f", "s", "t", "r", "_">>

\* StringTable.__init__
StringTableInit ==
    /\ keys = << <<"e", "m", "p", "t", "y">> >>
    /\ values = << <<>> >>

\* n times the character c
Repeat(c, n) == [i \in 1..n |-> c]

\* The values looked up: the empty string, the name of the pre-seeded
\* identifier, values with the same identifier, values with an empty one,
\* a value that is the number given to an empty identifier, and values that
\* differ after MAX_STRINGID_LEN characters only.
StrValues ==
    { <<>>,
      <<"e", "m", "p", "t", "y">>,
      <<"a", "-", "b">>,
      <<"a", "_", "b">>,
      <<"!">>,
      <<"1">>,
      Repeat("x", MAX_STRINGID_LEN + 1),
      Repeat("x", MAX_STRINGID_LEN) \o <<"y">> }

-----------------------------------------------------------------------------
(* Schema values.  A JSON value is a record [t, n, s, items]: t its Python *)
(* type, n the number of an int, float or bool, s the text of a str, items *)
(* the elements of a list.  Absent marks a key a dict does not have.  A    *)
(* float is modelled by its integer value (0.0, 1.0, 2.0, ...) or by one   *)
(* of the two limits -1e100 and 1e100, named in s.                         *)

Absent == [t |-> "absent", n |-> 0, s |-> "", items |-> <<>>]

None == [t |-> "NoneType", n |-> 0, s |-> "", items |-> <<>>]

IntV(n) == [t |-> "int", n |-> n, s |-> "", items |-> <<>>]

FloatV(n) == [t |-> "float", n |-> n, s |-> "", items |-> <<>>]

BoolV(b) == [t |-> "bool", n |-> IF b THEN 1 ELSE 0, s |-> "", items |-> <<>>]

StrV(s) == [t |-> "str", n |-> 0, s |-> s, items |-> <<>>]

ListV(items) == [t |-> "list", n |-> 0, s |-> "", items |-> items]

\* These values get truncated by ConstNumber during C++ compilation
NUMBER_MIN == [t |-> "float", n |-> 0, s |-> "-1e100", items |-> <<>>]

NUMBER_MAX == [t |-> "float", n |-> 0, s |-> "1e100", items |-> <<>>]

\* dict.get(key): None for a key that is absent
get(v) == IF v = Absent THEN None ELSE v

\* bool(v)
truthy(v) ==
    CASE v.t \in {"absent", "NoneType"} -> FALSE
      [] v.t \in {"int", "bool"} -> v.n # 0
      [] v.t = "float" -> v.n # 0 \/ v.s # ""
      [] v.t = "str" -> v.s # ""
      [] v.t = "list" -> v.items # <<>>

IsNumeric(v) == v.t \in {"int", "float", "bool"}

\* a == b
py_eq(a, b) ==
    IF IsNumeric(a) /\ IsNumeric(b)
    THEN a.n = b.n /\ a.s = b.s
    ELSE a = b

\* a <= b for two numbers; every number of the model lies strictly between
\* -1e100 and 1e100
py_leq(a, b) ==
    CASE a.s = "-1e100" -> TRUE
      [] a.s = "1e100" -> b.s = "1e100"
      [] b.s = "-1e100" -> FALSE
      [] b.s = "1e100" -> TRUE
      [] OTHER -> a.n <= b.n

\* isinstance(value, types[ptype]) of validate_type; bool is a subclass of int
isinstance_of(value, ptype) ==
    CASE ptype = "array" -> value.t = "list"
      [] ptype = "string" -> value.t = "str"
      [] ptype = "integer" -> value.t \in {"int", "bool"}
      [] ptype = "boolean" -> value.t = "bool"
      [] ptype = "number" -> value.t \in {"float", "int", "bool"}

\* The first error among the results errs[1], errs[2], ...; "" when none
RECURSIVE first_error(_)
first_error(errs) ==
    IF errs = <<>> THEN ""
    ELSE IF Head(errs) # "" THEN Head(errs)
    ELSE first_error(Tail(errs))

\* Property.validate_type(value, attr_name): "" or the exception raised
RECURSIVE validate_type(_, _, _)
validate_type(ptype, enum, value) ==
    IF value = None THEN ""
    ELSE IF value.t = "list" /\ ptype # "array"
    THEN first_error([i \in DOMAIN value.items |->
                         validate_type(ptype, enum, value.items[i])])
    ELSE IF truthy(enum) THEN ""
    ELSE IF ptype \notin {"array", "string", "integer", "boolean", "number"}
    THEN "KeyError"
    ELSE IF ~isinstance_of(value, ptype) THEN "ValueError: must be of the type"
    ELSE ""

\* Range.check(value): "" or the exception raised
RECURSIVE check(_, _)
check(self, value) ==
    IF value.t = "list"
    THEN first_error([i \in DOMAIN value.items |-> check(self, value.items[i])])
    ELSE IF ~IsNumeric(value) THEN "TypeError"
    ELSE IF py_leq(self.minimum, value) /\ py_leq(value, self.maximum) THEN ""
    ELSE "ValueError: outside range"

\* Range(minimum, maximum)
NumRange(minimum, maximum) ==
    [minimum |-> minimum, maximum |-> maximum]

\* An IntRange with its bounds as values, for Range.check
AsRange(intrange) ==
    [minimum |-> IntV(intrange.minimum), maximum |-> IntV(intrange.maximum)]

\* CPP_TYPENAMES
CPP_TYPENAMES ==
    [t \in {"object", "array", "union", "string", "integer", "boolean", "number"} |->
        CASE t \in {"object", "array", "union"} -> "-"
          [] t = "string" -> "String"
          [] t = "integer" -> "int"
          [] t = "boolean" -> "bool"
          [] t = "number" -> "ConfigDB::Number"]

\* str.capitalize() of a key of CPP_TYPENAMES
capitalize(ptype) ==
    CASE ptype = "object" -> "Object"
      [] ptype = "array" -> "Array"
      [] ptype = "union" -> "Union"
      [] ptype = "string" -> "String"
      [] ptype = "integer" -> "Integer"
      [] ptype = "boolean" -> "Boolean"
      [] ptype = "number" -> "Number"

\* get_ptype(fields): "" stands for the ValueError of a missing type
get_ptype(dict) ==
    IF dict.oneOf # Absent THEN "union"
    ELSE IF ~truthy(get(dict.type)) THEN ""
    ELSE dict.type.s

\* min(list), max(list) of a list of numbers
list_min(items) ==
    CHOOSE x \in Elements(items) : \A y \in Elements(items) : py_leq(x, y)

list_max(items) ==
    CHOOSE x \in Elements(items) : \A y \in Elements(items) : py_leq(y, x)

\* value in list
py_in(value, items) ==
    \E i \in DOMAIN items : py_eq(items[i], value)

\* list.index(value) of a value the list holds
py_index(items, value) ==
    (CHOOSE i \in DOMAIN items :
        /\ py_eq(items[i], value)
        /\ \A j \in 1..(i - 1) : ~py_eq(items[j], value)) - 1

\* int32 = IntRange(0, 0, True, 32)
int32 == IntRange(0, 0, TRUE, 32)

\* The key None: not a str, which is a sequence of single characters
NoneName == <<"None">>

\* Property.parent is a Property or a Database, held by its number
NoParent == [kind |-> "None", id |-> 0]

PropertyRef(id) == [kind |-> "Property", id |-> id]

DatabaseRef(id) == [kind |-> "Database", id |-> id]

\* The attributes of a Property; err is the exception its construction
\* raised, "" when it was built.  obj is the number of its Object, 0 for none.
NoProperty ==
    [err |-> "", parent |-> NoParent, name |-> NoneName, ptype |-> "", ctype |-> "",
     property_type |-> "", ctype_override |-> None, default |-> None,
     alias |-> None, enum |-> None, enum_type |-> "", enum_ctype |-> "",
     obj |-> 0, is_store |-> FALSE,
     intrange |-> IntRange(0, 0, FALSE, 0),
     numrange |-> NumRange(None, None)]

Raised(err) == [NoProperty EXCEPT !.err = err]

\* Property.__init__, lines 160-178: the attributes read from fields
property_read(parent, key, dict) ==
    LET ptype == get_ptype(dict)
        enum  == get(dict.enum)
        err   == first_error(<<
                    IF ptype = "" THEN "ValueError: type is required" ELSE "",
                    IF ptype \notin DOMAIN CPP_TYPENAMES THEN "KeyError" ELSE "",
                    validate_type(ptype, enum, get(dict.minimum)),
                    validate_type(ptype, enum, get(dict.maximum)) >>)
    IN  IF err # "" THEN Raised(err)
        ELSE [NoProperty EXCEPT
                !.parent = parent,
                !.name = key,
                !.ptype = ptype,
                !.ctype_override = get(dict.ctype),
                !.default = get(dict.default),
                !.ctype = CPP_TYPENAMES[ptype],
                !.property_type = capitalize(ptype),
                !.alias = get(dict.alias),
                !.enum = enum,
                !.is_store = (get(dict.store) # None)]

\* The range checked against 0 whatever the default
default_zero(self) == IntV(0)

\* The default checked as it is, None when there is none
default_given(self) == self.default

\* self.default or 0
default_or_0(self) == IF truthy(self.default) THEN self.default ELSE IntV(0)

\* Property.__init__, lines 180-196: the range of an integer or a number
property_range(self, dict) ==
    LET lo == get(dict.minimum)
        hi == get(dict.maximum)
    IN  IF self.err # "" THEN self
        ELSE IF self.ptype = "integer"
        THEN LET mn == IF lo = None THEN IntV(typemin(int32)) ELSE lo
                 mx == IF hi = None THEN IntV(typemax(int32)) ELSE hi
             IN  IF ~IsNumeric(mn) \/ ~IsNumeric(mx) THEN Raised("TypeError")
                 ELSE LET rng == deduce(mn.n, mx.n)
                          err == check(AsRange(rng), default_or_0(self))
                      IN  IF err # "" THEN Raised(err)
                          ELSE [self EXCEPT !.intrange = rng,
                                            !.ctype = ctype_of(rng),
                                            !.property_type = property_type_of(rng)]
        ELSE IF self.ptype = "number"
        THEN LET mn == IF lo = None THEN NUMBER_MIN ELSE lo
                 mx == IF hi = None THEN NUMBER_MAX ELSE hi
             IN  IF ~IsNumeric(mn) \/ ~IsNumeric(mx) THEN Raised("TypeError")
                 ELSE LET err == check(NumRange(mn, mx), default_or_0(self))
                      IN  IF err # "" THEN Raised(err)
                          ELSE [self EXCEPT !.numrange = NumRange(mn, mx)]
        ELSE self

\* Property.__init__, lines 204-219: enum_type and enum_ctype by type
property_enum_type(self) ==
    LET typed == [self EXCEPT !.enum_type = self.property_type,
                              !.enum_ctype = self.ctype]
    IN  IF self.ptype = "string" THEN typed
        ELSE IF self.ptype = "integer"
        THEN IF \E x \in Elements(self.enum.items) : ~IsNumeric(x)
             THEN Raised("TypeError")
             ELSE LET rng == deduce(list_min(self.enum.items).n,
                                    list_max(self.enum.items).n)
                  IN  [typed EXCEPT !.intrange = rng,
                                    !.enum_type = property_type_of(rng),
                                    !.enum_ctype = ctype_of(rng)]
        ELSE IF self.ptype = "number"
        THEN LET err == check(NumRange(NUMBER_MIN, NUMBER_MAX), self.enum)
             IN  IF err # "" THEN Raised(err)
                 ELSE [typed EXCEPT !.numrange = NumRange(NUMBER_MIN, NUMBER_MAX),
                                    !.enum_ctype = "const_number_t"]
        ELSE Raised("ValueError: Unsupported enum type")

\* Property.__init__, lines 220-225: the default of an enum, as its index
property_enum_default(self) ==
    IF self.err # "" THEN self
    ELSE IF truthy(self.default)
    THEN IF ~py_in(self.default, self.enum.items)
         THEN Raised("ValueError: default not in enum")
         ELSE [self EXCEPT !.default = IntV(py_index(self.enum.items, self.default))]
    ELSE [self EXCEPT !.default = IntV(0)]

\* Property.__init__, lines 226-228: an enum is stored as its index
property_enum_retype(self) ==
    IF self.err # "" THEN self
    ELSE [self EXCEPT !.ptype = "integer",
                      !.property_type = "Enum",
                      !.ctype = "uint8_t"]

\* enum accepted together with minimum and maximum
property_enum_bounds_off(self, dict) ==
    self

\* Property.__init__, lines 201-203: enum excludes minimum and maximum
property_enum_bounds(self, dict) ==
    IF dict.minimum # Absent \/ dict.maximum # Absent
    THEN Raised("ValueError: enum and minimum/maximum fields are mutually-exclusive")
    ELSE self

\* Property.__init__, lines 201-228
property_enum(self, dict) ==
    IF self.err # "" \/ ~truthy(self.enum) THEN self
    ELSE LET checked == property_enum_bounds(self, dict)
         IN  IF checked.err # "" THEN checked
             ELSE property_enum_retype(property_enum_default(property_enum_type(checked)))

\* Property.__init__, line 230
property_validate_default(self) ==
    IF self.err # "" THEN self
    ELSE LET err == validate_type(self.ptype, self.enum, self.default)
         IN  IF err # "" THEN Raised(err) ELSE self

\* Property(parent, key, fields)
Property(parent, key, dict) ==
    property_validate_default(
        property_enum(
            property_range(property_read(parent, key, dict), dict),
            dict))

\* Property.data_size of a property without an object
scalar_data_size(self) == CPP_TYPESIZES[self.ctype]

\* A dict of the schema without any key.  The keys with a JSON value hold
\* that value; "$ref" and "title" hold a str (no "$ref": the empty str; no
\* title: None); "object" holds the number of the Object put there by
\* parse_property, 0 for none; entries lists the keys whose value is a dict
\* ("properties", "items", "$defs", and the keys of such a dict), in order,
\* each with the number of that dict; the elements of "oneOf" are the numbers
\* of its dicts.
NoFields ==
    [type |-> Absent, oneOf |-> Absent, ctype |-> Absent, default |-> Absent,
     alias |-> Absent, enum |-> Absent, store |-> Absent,
     minimum |-> Absent, maximum |-> Absent,
     ref |-> <<>>, title |-> NoneName, object |-> 0, entries |-> <<>>]

\* The list [0, 1, ..., n - 1]
Upto(n) == ListV([i \in 1..n |-> IntV(i - 1)])

\* The fragments of scalar properties that are parsed: every scalar type,
\* without and with an enum of values of that type (empty; with a falsy
\* value in second place and without one; of 256 and of 257 values), a
\* default (absent, falsy, a member of the enum, not a member), a minimum and
\* a maximum.
ScalarTypes == {"string", "integer", "number", "boolean"}

EnumLists(t) ==
    {Absent, ListV(<<>>)} \cup
    CASE t = "string" ->
            { ListV(<<StrV("a"), StrV("b"), StrV("c")>>),
              ListV(<<StrV("a"), StrV(""), StrV("c")>>) }
      [] t = "integer" ->
            { ListV(<<IntV(5), IntV(0), IntV(7)>>),
              ListV(<<IntV(1), IntV(2), IntV(3)>>),
              Upto(256),
              Upto(257) }
      [] t = "number" ->
            { ListV(<<FloatV(1), FloatV(2)>>) }
      [] t = "boolean" ->
            { ListV(<<BoolV(FALSE), BoolV(TRUE)>>) }

Defaults ==
    { Absent, StrV("b"), StrV("z"), StrV(""), IntV(0), IntV(2), IntV(7), IntV(256),
      IntV(-1), FloatV(2), BoolV(TRUE) }

Minimums == {Absent, IntV(0), IntV(1)}

Maximums == {Absent, IntV(10)}

ScalarFields ==
    UNION { { [NoFields EXCEPT !.type = StrV(t), !.enum = e, !.default = d,
                               !.minimum = mn, !.maximum = mx] :
                e \in EnumLists(t), d \in Defaults,
                mn \in Minimums, mx \in Maximums } :
            t \in ScalarTypes }

-----------------------------------------------------------------------------
(* Schemas, objects and properties.  The dicts of the loaded schemas are   *)
(* numbered and kept in `schema`, the Objects in `objects`, the Property   *)
(* instances in `props`: a number stands for the identity of the instance. *)

S_properties == <<"p", "r", "o", "p", "e", "r", "t", "i", "e", "s">>

S_items == <<"i", "t", "e", "m", "s">>

S_defs == <<"$", "d", "e", "f", "s">>

S_Item == <<"I", "t", "e", "m">>

S_tag == <<"t", "a", "g">>

S_root == <<"r", "o", "o", "t">>

S_Root == <<"R", "o", "o", "t">>

\* bool(s) of a str or None
truthy_str(s) == s # <<>> /\ s # NoneName

\* s.startswith('#/')
startswith_hash(s) == Len(s) >= 2 /\ s[1] = "#" /\ s[2] = "/"

\* s.partition('/'): the text before the first '/' and the text after it
partition(s) ==
    IF \E i \in DOMAIN s : s[i] = "/"
    THEN LET i == CHOOSE k \in DOMAIN s :
                    s[k] = "/" /\ \A j \in 1..(k - 1) : s[j] # "/"
         IN  <<SubSeq(s, 1, i - 1), SubSeq(s, i + 1, Len(s))>>
    ELSE <<s, <<>>>>

\* make_typename(s)
make_typename(s) == make_identifier(s, TRUE)

\* d.get(key) for a key whose value is a dict: its number, 0 for None
RECURSIVE entry_from(_, _, _)
entry_from(entries, key, i) ==
    IF i > Len(entries) THEN 0
    ELSE IF entries[i][1] = key THEN entries[i][2]
    ELSE entry_from(entries, key, i + 1)

entry(dict, key) == entry_from(dict.entries, key, 1)

\* d[key] = value on a dict kept as a list of <<key, value>> in insertion order
dict_set(d, key, value) ==
    IF \E i \in DOMAIN d : d[i][1] = key
    THEN [i \in DOMAIN d |-> IF d[i][1] = key THEN <<key, value>> ELSE d[i]]
    ELSE Append(d, <<key, value>>)

\* json.load: the dicts of a document get their numbers, each dict before
\* the dicts it holds.  A document is written as a dict whose entries and
\* oneOf elements are dicts themselves.  children lists the dicts a dict
\* holds, load_from the dicts of a list of documents, the first of them
\* numbered id.
children(doc) ==
    [i \in DOMAIN doc.entries |-> doc.entries[i][2]]
    \o (IF doc.oneOf.t = "list" THEN doc.oneOf.items ELSE <<>>)

RECURSIVE dicts(_)
RECURSIVE dicts_from(_)
dicts_from(docs) ==
    IF docs = <<>> THEN 0 ELSE dicts(Head(docs)) + dicts_from(Tail(docs))

dicts(doc) == 1 + dicts_from(children(doc))

RECURSIVE load_from(_, _)
load_from(docs, id) ==
    IF docs = <<>> THEN <<>>
    ELSE LET doc  == Head(docs)
             at(i) == id + 1 + dicts_from(SubSeq(children(doc), 1, i - 1))
             node == [doc EXCEPT
                        !.entries = [i \in DOMAIN doc.entries |->
                                        <<doc.entries[i][1], at(i)>>],
                        !.oneOf = IF doc.oneOf.t = "list"
                                  THEN ListV([i \in DOMAIN doc.oneOf.items |->
                                                IntV(at(Len(doc.entries) + i))])
                                  ELSE doc.oneOf]
         IN  <<node>> \o load_from(children(doc), id + 1)
                     \o load_from(Tail(docs), id + dicts(doc))

load(heap, doc) ==
    [heap |-> heap \o load_from(<<doc>>, Len(heap) + 1), id |-> Len(heap) + 1]

\* An Object without attributes.  class is the class of the instance; parent
\* the number of an Object, 0 for None; object_properties and properties hold
\* numbers of Property instances; object_defs and external_objects (of a
\* Database) are dicts from a reference to the number of an Object; schema
\* (of a Database) is the number of the root dict of its document.
NoObject ==
    [class |-> "", parent |-> 0, name |-> NoneName, ref |-> <<>>,
     schema_id |-> <<>>, object_properties |-> <<>>, properties |-> <<>>,
     default |-> None, schema |-> 0, object_defs |-> <<>>,
     external_objects |-> <<>>]

\* Class(parent, name, ref, schema_id) for Object, Array and Union
Object(class, parent, name, ref, schema_id) ==
    [NoObject EXCEPT !.class = class, !.parent = parent, !.name = name,
                     !.ref = ref, !.schema_id = schema_id]

\* Database(None, schema_id, None, schema_id=schema_id, schema=schema)
Database(schema_id, root) ==
    [NoObject EXCEPT !.class = "Database", !.name = schema_id,
                     !.schema_id = schema_id, !.schema = root]

\* load_schema(filename) for each document in turn: the dicts and the
\* Databases, which are the first Objects
RECURSIVE load_schemas(_, _, _)
load_schemas(heap, dbs, docs) ==
    IF docs = <<>> THEN [schema |-> heap, objects |-> dbs]
    ELSE LET loaded == load(heap, Head(docs)[2])
         IN  load_schemas(loaded.heap,
                          Append(dbs, Database(Head(docs)[1], loaded.id)),
                          Tail(docs))

\* databases.get(schema_id): the number of the Database, 0 for None
databases_get(objs, schema_id) ==
    IF \E i \in DOMAIN objs : objs[i].class = "Database" /\ objs[i].name = schema_id
    THEN CHOOSE i \in DOMAIN objs : objs[i].class = "Database" /\ objs[i].name = schema_id
    ELSE 0

\* ObjectProperty.__init__, lines 344-345: the dict it leaves
ObjectProperty_fields(dict) ==
    IF dict.type = Absent THEN [dict EXCEPT !.type = StrV("object")] ELSE dict

\* Line 346, self.obj = obj, on the Property that Property.__init__ made
with_obj(built, obj) == IF built.err # "" THEN built ELSE [built EXCEPT !.obj = obj]

\* ObjectProperty(parent, name, fields, obj)
ObjectProperty(parent, name, dict, obj) ==
    with_obj(Property(parent, name, ObjectProperty_fields(dict)), obj)

\* Property.database of the Property or Database `parent`
RECURSIVE property_database(_, _)
property_database(prs, parent) ==
    IF parent.kind = "Database" THEN parent.id
    ELSE property_database(prs, prs[parent.id].parent)

\* Property.is_root
is_root(self) == self.is_store /\ ~truthy_str(self.name)

\* Property.id
property_id(self) ==
    IF truthy_str(self.name) THEN make_identifier(self.name, FALSE) ELSE S_root

\* Object.typename
object_typename(self) ==
    make_typename(IF truthy_str(self.name) THEN self.name ELSE S_Root)

\* The state the parse works on: the dicts, the Objects, the Property
\* instances, the exception raised ("" for none) and the Property returned.
\* attached lists, for each ObjectProperty made by create_object_property,
\* the dict parse_property was called with (fields), the dict its Object was
\* made from (ref_node) and the instance itself (prop); walked lists the
\* dicts an Object was made from, one entry each time; merges lists, for
\* each Property made from a dict and the dict its "$ref" led to, the two
\* dicts as they were before the merge.
raise(st, err) == [st EXCEPT !.err = err]

\* Lines 646-654 once the ObjectProperty is built: it is appended to the
\* object_properties of owner; site and target go to `attached`
attach_object_property(st, built, owner, stored, site, target) ==
    IF built.err # "" THEN raise(st, built.err)
    ELSE [st EXCEPT
            !.props = Append(@, [built EXCEPT !.is_store = (@ \/ stored)]),
            !.objects[owner].object_properties = Append(@, Len(st.props) + 1),
            !.attached = Append(@, [fields |-> site, ref_node |-> target,
                                    prop |-> Len(st.props) + 1]),
            !.ret = Len(st.props) + 1]

\* create_object_property(obj): fieldsId is the dict the name `fields` is
\* bound to at the call
create_object_property(st, parent_prop, key, fieldsId, obj, site, target) ==
    LET database == property_database(st.props, PropertyRef(parent_prop))
        stored   == st.schema[fieldsId].store # Absent
    IN  IF stored /\ ~is_root(st.props[parent_prop])
        THEN raise(st, "ValueError: cannot have store annotation, not a root object")
        ELSE attach_object_property(
                [st EXCEPT !.schema[fieldsId] = ObjectProperty_fields(@)],
                ObjectProperty(IF stored THEN DatabaseRef(database)
                               ELSE PropertyRef(parent_prop),
                               key, st.schema[fieldsId], obj),
                IF stored THEN database ELSE st.props[parent_prop].obj,
                stored, site, target)

\* The outcome of following the "$ref" of a dict; obj is the Object found in
\* the dict referred to, 0 for none
Resolved(err, schema_id, object_ref, db, ref_node, object_name, key, obj, parent) ==
    [err |-> err, schema_id |-> schema_id, object_ref |-> object_ref, db |-> db,
     ref_node |-> ref_node, object_name |-> object_name, key |-> key,
     obj |-> obj, parent |-> parent]

Unresolved(err) == Resolved(err, <<>>, <<>>, 0, 0, NoneName, NoneName, 0, 0)

\* Lines 712-717: the Object of class `class` is made, entered in object_defs
\* and external_objects and kept in the dict
new_object(st, database, parent_prop, fieldsId, class, res) ==
    LET id     == Len(st.objects) + 1
        parent == IF st.schema[fieldsId].store # Absent THEN database
                  ELSE IF truthy_str(res.object_ref) THEN res.db
                  ELSE res.parent
    IN  [st EXCEPT
            !.objects = Append(@, Object(class, parent, res.object_name,
                                         res.object_ref, res.schema_id)),
            !.objects = IF truthy_str(res.object_ref)
                        THEN [@ EXCEPT ![res.db].object_defs =
                                            dict_set(@, res.object_ref, id)]
                        ELSE @,
            !.objects = IF res.schema_id # st.objects[st.props[parent_prop].obj].schema_id
                        THEN [@ EXCEPT ![database].external_objects =
                                            dict_set(@, res.object_ref, id)]
                        ELSE @,
            !.schema[fieldsId].object = id,
            !.walked = Append(@, fieldsId)]

\* create_object_and_property(Class), lines 711-718; fieldsId is the dict the
\* name `fields` is bound to after line 709
create_object_and_property(st, parent_prop, fieldsId, class, res, site) ==
    create_object_property(
        new_object(st, property_database(st.props, PropertyRef(parent_prop)),
                   parent_prop, fieldsId, class, res),
        parent_prop, res.key, fieldsId, Len(st.objects) + 1, site, fieldsId)

\* The name `name` before its first assignment
Unbound == <<"UnboundLocalError">>

\* The loop of lines 669-675 over the path `ref`, from the dict ref_node.
\* `parent`, which the loop assigns too, is not read after it: the Object of
\* a reference is made with parent db (line 712).  A path names keys whose
\* value is a dict.
RECURSIVE walk(_, _, _, _)
walk(heap, ref_node, ref, name) ==
    IF ref = <<>> THEN [err |-> "", ref_node |-> ref_node, name |-> name]
    ELSE LET part == partition(ref)
             next == entry(heap[ref_node], part[1])
         IN  IF next = 0 \/ heap[next] = NoFields
             THEN [err |-> "ValueError: Missing reference", ref_node |-> 0, name |-> part[1]]
             ELSE walk(heap, next, part[2], part[1])

\* Lines 676-689 for a loop left at the first dict it is led to
followed_first(st, sid, oref, db, key, found, seen) ==
    IF found.err # "" THEN Unresolved(found.err)
    ELSE IF found.name = Unbound THEN Unresolved("UnboundLocalError")
    ELSE Resolved("", sid, oref, db, found.ref_node, found.name,
                  IF truthy_str(key) THEN key ELSE found.name,
                  st.schema[found.ref_node].object, 0)

\* Lines 676-689 at the dict the path led to (found)
RECURSIVE follow(_, _, _, _, _, _)
followed(st, sid, oref, db, key, found, seen) ==
    IF found.err # "" THEN Unresolved(found.err)
    ELSE IF found.name = Unbound THEN Unresolved("UnboundLocalError")
    ELSE IF st.schema[found.ref_node].object # 0
    THEN Resolved("", sid, oref, db, found.ref_node, found.name,
                  IF truthy_str(key) THEN key ELSE found.name,
                  st.schema[found.ref_node].object, 0)
    ELSE IF truthy_str(st.schema[found.ref_node].ref)
    THEN follow(st, sid, st.schema[found.ref_node].ref,
                IF truthy_str(key) THEN key ELSE found.name, found.name, seen)
    ELSE Resolved("", sid, oref, db, found.ref_node, found.name,
                  IF truthy_str(key) THEN key ELSE found.name, 0, 0)

\* The loop of lines 657-689 from its top, with schema_id, object_ref, key
\* and name as they are there.  The loop changes no dict, so that it never
\* ends once it is at its top with a schema_id and an object_ref it was at
\* its top with before (seen): "hang".
follow(st, schema_id, object_ref, key, name, seen) ==
    LET internal == startswith_hash(object_ref)
        ref      == IF internal THEN SubSeq(object_ref, 3, Len(object_ref))
                    ELSE partition(object_ref)[2]
        sid      == IF internal THEN schema_id ELSE partition(object_ref)[1]
        oref     == IF internal THEN schema_id \o <<"/">> \o ref ELSE object_ref
        db       == databases_get(st.objects, sid)
    IN  IF <<schema_id, object_ref>> \in seen THEN Unresolved("hang")
        ELSE IF db = 0 THEN Unresolved("ValueError: Database not found")
        ELSE followed(st, sid, oref, db, key,
                      walk(st.schema, st.objects[db].schema, ref, name),
                      seen \cup {<<schema_id, object_ref>>})

\* fields.update(ref_node): the keys of the template replace those of the
\* dict
merge_update(dict, template) ==
    [dict EXCEPT
        !.type = IF template.type = Absent THEN @ ELSE template.type,
        !.default = IF template.default = Absent THEN @ ELSE template.default,
        !.minimum = IF template.minimum = Absent THEN @ ELSE template.minimum,
        !.maximum = IF template.maximum = Absent THEN @ ELSE template.maximum]

\* Lines 700-702: the keys of the template that the dict lacks are copied
merge(dict, template) ==
    [dict EXCEPT
        !.type = IF @ = Absent THEN template.type ELSE @,
        !.oneOf = IF @ = Absent THEN template.oneOf ELSE @,
        !.ctype = IF @ = Absent THEN template.ctype ELSE @,
        !.default = IF @ = Absent THEN template.default ELSE @,
        !.alias = IF @ = Absent THEN template.alias ELSE @,
        !.enum = IF @ = Absent THEN template.enum ELSE @,
        !.store = IF @ = Absent THEN template.store ELSE @,
        !.minimum = IF @ = Absent THEN template.minimum ELSE @,
        !.maximum = IF @ = Absent THEN template.maximum ELSE @,
        !.ref = IF @ = <<>> THEN template.ref ELSE @,
        !.title = IF @ = NoneName THEN template.title ELSE @,
        !.object = IF @ = 0 THEN template.object ELSE @,
        !.entries = @ \o SelectSeq(template.entries,
                                   LAMBDA e : entry(dict, e[1]) = 0)]

\* Lines 704-706 and 755 once the Property is built: it is appended to the
\* properties of the Object obj
add_property(st, built, obj) ==
    IF built.err # "" THEN raise(st, built.err)
    ELSE [st EXCEPT !.props = Append(@, built),
                    !.objects[obj].properties = Append(@, Len(st.props) + 1),
                    !.ret = Len(st.props) + 1]

\* Line 698 for a ref_node: the Property about to be made is entered in
\* `merges` with the two dicts as they are before lines 700-702
templated(st, fieldsId, ref_node) ==
    [st EXCEPT !.merges = Append(@, [fields |-> fieldsId, ref_node |-> ref_node,
                                     site |-> st.schema[fieldsId],
                                     template |-> st.schema[ref_node],
                                     prop |-> Len(st.props) + 1])]

\* Lines 704-706 with the dict `merged` of lines 697-702
parse_merged(st, parent_prop, key, fieldsId, merged) ==
    add_property([st EXCEPT !.schema[fieldsId] = merged],
                 Property(PropertyRef(parent_prop), key, merged),
                 st.props[parent_prop].obj)

\* Lines 697-706: a property that is no object, array or union
parse_scalar(st, parent_prop, key, fieldsId, ref_node) ==
    parse_merged(IF ref_node # 0 THEN templated(st, fieldsId, ref_node) ELSE st,
                 parent_prop, key, fieldsId,
                 IF ref_node # 0
                 THEN merge(st.schema[fieldsId], st.schema[ref_node])
                 ELSE st.schema[fieldsId])

\* fields.get('properties', {}).items()
properties_items(heap, fieldsId) ==
    IF entry(heap[fieldsId], S_properties) = 0 THEN <<>>
    ELSE heap[entry(heap[fieldsId], S_properties)].entries

\* `return prop` for the Property numbered ret, after the calls that made st
returning(st, ret) == IF st.err # "" THEN st ELSE [st EXCEPT !.ret = ret]

RECURSIVE parse_property(_, _, _, _)
RECURSIVE parse_properties(_, _, _, _)
RECURSIVE parse_options(_, _, _, _)

\* parse_properties(path, parent_prop, properties), from the i-th item on
parse_properties(st, parent_prop, items, i) ==
    IF st.err # "" \/ i > Len(items) THEN st
    ELSE parse_properties(
            parse_property(st, parent_prop, items[i][1], items[i][2]),
            parent_prop, items, i + 1)

\* Lines 724-725 with the object_prop of line 723 (made.ret)
parse_object_properties(made, target) ==
    IF made.err # "" THEN made
    ELSE returning(parse_properties(made, made.ret,
                                    properties_items(made.schema, target), 1),
                   made.ret)

\* Lines 720-725: an object
parse_object(st, parent_prop, target, res, site) ==
    IF st.schema[target].default # Absent
    THEN raise(st, "ValueError: Object default not supported")
    ELSE parse_object_properties(
            create_object_and_property(st, parent_prop, target, "Object", res, site),
            target)

\* Lines 733-738 with the array_prop of line 731 and the items_prop of line
\* 732 (done.ret)
parse_array_default(done, array_prop, target) ==
    LET arr     == done.props[array_prop].obj
        default == get(done.schema[target].default)
        st1     == [done EXCEPT !.objects[arr].default = default]
        invalid == validate_type(done.props[done.ret].ptype,
                                 done.props[done.ret].enum, default)
    IN  IF done.err # "" THEN done
        ELSE IF /\ st1.objects[arr].object_properties # <<>>
                /\ st1.schema[target].default # Absent
        THEN raise(st1, "ValueError: ObjectArray default not supported")
        ELSE IF invalid # "" THEN raise(st1, invalid)
        ELSE [st1 EXCEPT !.ret = array_prop]

\* Lines 732-738 with the array_prop of line 731 (made.ret)
parse_array_items(made, target, items) ==
    IF made.err # "" THEN made
    ELSE IF made.props[made.ret].name = NoneName THEN raise(made, "TypeError")
    ELSE parse_array_default(
            parse_property(made, made.ret,
                           make_typename(made.props[made.ret].name) \o S_Item,
                           items),
            made.ret, target)

\* Lines 727-738: an array
parse_array(st, parent_prop, target, res, site) ==
    IF \/ entry(st.schema[target], S_items) = 0
       \/ st.schema[entry(st.schema[target], S_items)] = NoFields
    THEN raise(st, "ValueError: Missing items property for array")
    ELSE parse_array_items(
            create_object_and_property(st, parent_prop, target, "Array", res, site),
            target, entry(st.schema[target], S_items))

\* Lines 746-749 with the prop of line 745 (done.ret)
parse_option(done) ==
    IF done.err # "" THEN done
    ELSE IF done.props[done.ret].obj = 0
    THEN raise(done, "ValueError: Union option type must be object")
    ELSE IF \/ property_id(done.props[done.ret]) = <<>>
            \/ object_typename(done.objects[done.props[done.ret].obj]) = <<>>
    THEN raise(done, "ValueError: Union option requires title or $ref")
    ELSE done

\* Lines 744-749: the options of a union, from the i-th on
parse_options(st, union_prop, opts, i) ==
    IF st.err # "" \/ i > Len(opts) THEN st
    ELSE parse_options(
            parse_option(parse_property(st, union_prop,
                                        st.schema[opts[i].n].title, opts[i].n)),
            union_prop, opts, i + 1)

\* The tag with the number of options as its maximum
tag_fields_count(n) ==
    [NoFields EXCEPT !.type = StrV("integer"),
                     !.minimum = IntV(0),
                     !.maximum = IntV(n)]

\* The dict of the tag of a union of n options, lines 750-754
tag_fields(n) ==
    [NoFields EXCEPT !.type = StrV("integer"),
                     !.minimum = IntV(0),
                     !.maximum = IntV(n - 1)]

\* Lines 750-756 with the union_prop of line 743
parse_union_tag(done, union_prop) ==
    IF done.err # "" THEN done
    ELSE returning(
            add_property(
                done,
                Property(PropertyRef(union_prop), S_tag,
                         tag_fields(Len(done.objects[done.props[union_prop].obj]
                                            .object_properties))),
                done.props[union_prop].obj),
            union_prop)

\* Lines 744-756 with the union_prop of line 743 (made.ret)
parse_union_options(made, target) ==
    IF made.err # "" THEN made
    ELSE parse_union_tag(
            parse_options(made, made.ret, made.schema[target].oneOf.items, 1),
            made.ret)

\* Lines 740-756: a union
parse_union(st, parent_prop, target, res, site) ==
    IF st.schema[target].default # Absent
    THEN raise(st, "ValueError: Union default not supported")
    ELSE parse_union_options(
            create_object_and_property(st, parent_prop, target, "Union", res, site),
            target)

\* Lines 695-758, with what lines 656-693 found (res).  A ValueError leaves
\* parse_property as the cause of a RuntimeError (lines 759-760).
parse_resolved(st, parent_prop, fieldsId, res) ==
    LET prop_type == get_ptype(IF res.ref_node # 0 THEN st.schema[res.ref_node]
                               ELSE st.schema[fieldsId])
        target    == IF res.ref_node # 0 THEN res.ref_node ELSE fieldsId
    IN  IF prop_type = "" THEN raise(st, "ValueError: type is required")
        ELSE IF prop_type \notin {"object", "array", "union"}
        THEN parse_scalar(st, parent_prop, res.key, fieldsId, res.ref_node)
        ELSE IF prop_type = "object"
        THEN parse_object(st, parent_prop, target, res, fieldsId)
        ELSE IF prop_type = "array"
        THEN parse_array(st, parent_prop, target, res, fieldsId)
        ELSE parse_union(st, parent_prop, target, res, fieldsId)

\* parse_found for a parse_property that gives the ObjectProperty of an
\* Object found in the dict the Object of its parent
parse_found_parent(st, parent_prop, fieldsId, res, database) ==
    IF res.err # "" THEN raise(st, res.err)
    ELSE IF res.obj # 0
    THEN create_object_property(st, parent_prop, res.key, fieldsId,
                                st.props[parent_prop].obj, fieldsId, res.ref_node)
    ELSE parse_resolved(st, parent_prop, fieldsId, res)

\* Lines 679-693 and on, with what the loop of lines 657-689 found (res)
parse_found(st, parent_prop, fieldsId, res, database) ==
    IF res.err # "" THEN raise(st, res.err)
    ELSE IF res.obj # 0
    THEN create_object_property(
            IF st.objects[res.obj].schema_id
                    # st.objects[st.props[parent_prop].obj].schema_id
            THEN [st EXCEPT !.objects[database].external_objects =
                                dict_set(@, res.object_ref, res.obj)]
            ELSE st,
            parent_prop, res.key, fieldsId, res.obj, fieldsId, res.ref_node)
    ELSE parse_resolved(st, parent_prop, fieldsId, res)

\* parse_property(path, parent_prop, key, fields)
parse_property(st, parent_prop, key, fieldsId) ==
    LET database  == property_database(st.props, PropertyRef(parent_prop))
        pobj      == st.objects[st.props[parent_prop].obj]
        schema_id == IF truthy_str(pobj.schema_id) THEN pobj.schema_id
                     ELSE st.objects[database].schema_id
    IN  IF st.err # "" THEN st
        ELSE parse_found(st, parent_prop, fieldsId,
                         IF truthy_str(st.schema[fieldsId].ref)
                         THEN follow(st, schema_id, st.schema[fieldsId].ref,
                                     key, Unbound, {})
                         ELSE Resolved("", schema_id, <<>>, 0, 0, key, key, 0,
                                       st.props[parent_prop].obj),
                         database)

\* Line 768, parse_properties(database.schema_id, root, ...) with the root of
\* lines 765-767
parse_root(st, root, fieldsId) ==
    parse_properties(st, root, properties_items(st.schema, fieldsId), 1)

\* parse_database(database)
parse_database(st, database) ==
    parse_root(
        [st EXCEPT
            !.objects = Append(@, Object("Object", database, <<>>, <<>>,
                                         st.objects[database].schema_id)),
            !.objects[database].object_properties = Append(@, Len(st.props) + 1),
            !.schema[st.objects[database].schema].object = Len(st.objects) + 1,
            !.props = Append(@, [ObjectProperty(DatabaseRef(database), <<>>, NoFields,
                                                Len(st.objects) + 1)
                                    EXCEPT !.is_store = TRUE])],
        Len(st.props) + 1, st.objects[database].schema)

\* The documents that are loaded, written as nested dicts
Dict(items) == [NoFields EXCEPT !.entries = items]

Scalar(type) == [NoFields EXCEPT !.type = StrV(type)]

Integer(minimum, maximum) ==
    [NoFields EXCEPT !.type = StrV("integer"),
                     !.minimum = IntV(minimum),
                     !.maximum = IntV(maximum)]

Enum(type, enum) == [NoFields EXCEPT !.type = StrV(type), !.enum = ListV(enum)]

Ref(ref) == [NoFields EXCEPT !.ref = ref]

ObjectOf(items) ==
    [NoFields EXCEPT !.type = StrV("object"),
                     !.entries = << <<S_properties, Dict(items)>> >>]

ArrayOf(items) ==
    [NoFields EXCEPT !.type = StrV("array"),
                     !.entries = << <<S_items, items>> >>]

OneOf(opts) == [NoFields EXCEPT !.oneOf = ListV(opts)]

Titled(title, dict) == [dict EXCEPT !.title = title]

Stored(dict) == [dict EXCEPT !.store = StrV("json")]

WithDefault(dict, default) == [dict EXCEPT !.default = default]

Document(defs, items) ==
    Dict(<< <<S_defs, Dict(defs)>>, <<S_properties, Dict(items)>> >>)

\* '/'.join(parts)
RECURSIVE join(_)
join(parts) ==
    IF Len(parts) = 1 THEN parts[1]
    ELSE parts[1] \o <<"/">> \o join(Tail(parts))

-----------------------------------------------------------------------------
(* Layout: data_size and generate_typeinfo                                 *)

\* A size, or the exception raised while it was computed
Size(n) == [err |-> "", size |-> n]

SizeError(err) == [err |-> err, size |-> 0]

\* sum(sizes)
RECURSIVE sum(_)
sum(sizes) ==
    IF sizes = <<>> THEN Size(0)
    ELSE IF Head(sizes).err # "" THEN Head(sizes)
    ELSE LET rest == sum(Tail(sizes))
         IN  IF rest.err # "" THEN rest ELSE Size(Head(sizes).size + rest.size)

\* max(sizes)
RECURSIVE max(_)
max(sizes) ==
    IF sizes = <<>> THEN SizeError("ValueError: max() arg is an empty sequence")
    ELSE IF Head(sizes).err # "" THEN Head(sizes)
    ELSE IF Len(sizes) = 1 THEN Head(sizes)
    ELSE LET rest == max(Tail(sizes))
         IN  IF rest.err # "" THEN rest
             ELSE IF rest.size > Head(sizes).size THEN rest ELSE Head(sizes)

\* a + b
plus(a, b) ==
    IF a.err # "" THEN a ELSE IF b.err # "" THEN b ELSE Size(a.size + b.size)

\* Object.data_size, Array.data_size, Union.data_size of the Object self;
\* active holds the Objects whose data_size is being computed: a data_size
\* that needs itself recurses until RecursionError.
RECURSIVE data_size(_, _, _, _)

\* Property.data_size
property_data_size(objs, prs, self, active) ==
    IF prs[self].obj # 0 THEN data_size(objs, prs, prs[self].obj, active)
    ELSE IF prs[self].ctype \in DOMAIN CPP_TYPESIZES
    THEN Size(scalar_data_size(prs[self]))
    ELSE SizeError("KeyError")

\* [prop.data_size for prop in list]
data_sizes(objs, prs, list, active) ==
    [i \in DOMAIN list |-> property_data_size(objs, prs, list[i], active)]

\* Union.max_object_size
max_object_size(objs, prs, self, active) ==
    max(data_sizes(objs, prs, objs[self].object_properties, active))

\* Union.max_property_size
max_property_size(objs, prs, self, active) ==
    max(data_sizes(objs, prs, objs[self].properties, active))

\* Union.data_size as the sum of the sizes of the options and the tag
union_data_size_sum(objs, prs, self, active) ==
    plus(sum(data_sizes(objs, prs, objs[self].object_properties, active)),
         max_property_size(objs, prs, self, active))

\* Union.data_size
union_data_size(objs, prs, self, active) ==
    plus(max_object_size(objs, prs, self, active),
         max_property_size(objs, prs, self, active))

\* Object.data_size without the child objects
object_data_size_own(objs, prs, self, active) ==
    sum(data_sizes(objs, prs, objs[self].properties, active))

\* Object.data_size
object_data_size(objs, prs, self, active) ==
    plus(sum(data_sizes(objs, prs, objs[self].object_properties, active)),
         sum(data_sizes(objs, prs, objs[self].properties, active)))

data_size(objs, prs, self, active) ==
    IF self \in active THEN SizeError("RecursionError")
    ELSE IF objs[self].class = "Array" THEN Size(ARRAY_ID_SIZE)
    ELSE IF objs[self].class = "Union"
    THEN union_data_size(objs, prs, self, active \cup {self})
    ELSE object_data_size(objs, prs, self, active \cup {self})

\* The characters of a str value of a schema: each is the empty str or a
\* single character
chars(s) == IF s = "" THEN <<>> ELSE <<s>>

\* The identifier of the string that get_index found or added (got)
identified(got) ==
    [keys |-> got.keys, values |-> got.values,
     ident |-> STRING_PREFIX \o got.keys[got.index + 1]]

\* StringTable.__getitem__(value) for a str or None: the table after the
\* call and the identifier returned
strings_getitem(ks, vs, value) ==
    IF value = NoneName
    THEN [keys |-> ks, values |-> vs, ident |-> <<"n", "u", "l", "l", "p", "t", "r">>]
    ELSE identified(get_index(ks, vs, value))

\* What generate_typeinfo has made so far (acc) with the string table that
\* a db.strings[x] left (got)
looked_up(acc, got) == [acc EXCEPT !.keys = got.keys, !.values = got.values]

\* db.strings[x] for every x of a list of str values, from the i-th on
RECURSIVE strings_getitems(_, _, _)
strings_getitems(acc, items, i) ==
    IF i > Len(items) THEN acc
    ELSE strings_getitems(
            looked_up(acc, strings_getitem(acc.keys, acc.values, chars(items[i].s))),
            items, i + 1)

\* What generate_typeinfo has made so far: the exception raised, proplist,
\* aliaslist, offset and the string table
NoTypeinfo ==
    [err |-> "", proplist |-> <<>>, aliaslist |-> <<>>, offset |-> 0,
     keys |-> <<>>, values |-> <<>>]

\* An entry of aliaslist with the length of proplist as its offset
aliased_next(acc, got) ==
    [acc EXCEPT !.keys = got.keys,
                !.values = got.values,
                !.aliaslist = Append(@, [type |-> "Alias",
                                         name |-> got.ident,
                                         offset |-> Len(acc.proplist)])]

\* Line 1054: the entry of aliaslist for the identifier that db.strings[alias]
\* returned (got)
aliased(acc, got) ==
    [acc EXCEPT !.keys = got.keys,
                !.values = got.values,
                !.aliaslist = Append(@, [type |-> "Alias",
                                         name |-> got.ident,
                                         offset |-> Len(acc.proplist) - 1])]

\* add_alias(alias)
RECURSIVE add_alias(_, _)
RECURSIVE add_aliases(_, _, _)
add_aliases(acc, items, i) ==
    IF i > Len(items) THEN acc
    ELSE add_aliases(add_alias(acc, items[i]), items, i + 1)

add_alias(acc, alias) ==
    IF alias.t = "str"
    THEN aliased(acc, strings_getitem(acc.keys, acc.values, chars(alias.s)))
    ELSE IF alias.t = "list" THEN add_aliases(acc, alias.items, 1)
    ELSE acc

\* '.name = ' of an entry of proplist
entry_name(acc, is_array, name) ==
    IF is_array
    THEN [keys |-> acc.keys, values |-> acc.values,
          ident |-> <<"f", "s", "t", "r", "_", "e", "m", "p", "t", "y">>]
    ELSE strings_getitem(acc.keys, acc.values, name)

\* Lines 1071-1072: what the offset grows by after the entry of a child
object_step(objs, prs, self, child) ==
    IF objs[self].class = "Union" THEN Size(0)
    ELSE property_data_size(objs, prs, child, {})

\* `offset += size`, or the exception raised while the size was computed
advance(acc, step) ==
    IF acc.err # "" THEN acc
    ELSE IF step.err # "" THEN [acc EXCEPT !.err = step.err]
    ELSE [acc EXCEPT !.offset = @ + step.size]

\* Lines 1064-1072: the entry of the child object `child`, named as `named`
object_entry(acc, child, named, step) ==
    advance(add_alias([acc EXCEPT !.keys = named.keys,
                                  !.values = named.values,
                                  !.proplist = Append(@, [type |-> "Object",
                                                          name |-> named.ident,
                                                          offset |-> acc.offset,
                                                          object |-> child.obj,
                                                          variant |-> "object"])],
                      child.alias),
            step)

\* Lines 1063-1072: the entries of the child objects, from the i-th on
RECURSIVE typeinfo_objects(_, _, _, _, _)
typeinfo_objects(objs, prs, self, acc, i) ==
    IF acc.err # "" \/ i > Len(objs[self].object_properties) THEN acc
    ELSE typeinfo_objects(
            objs, prs, self,
            object_entry(acc, prs[objs[self].object_properties[i]],
                         entry_name(acc, objs[self].class = "Array",
                                    prs[objs[self].object_properties[i]].name),
                         object_step(objs, prs, self, objs[self].object_properties[i])),
            i + 1)

\* getVariantInfo(prop): the strings it looks up and the variant it names
getVariantInfo(acc, self) ==
    IF truthy(self.enum)
    THEN [acc |-> IF self.enum_type = "String"
                  THEN strings_getitems(acc, self.enum.items, 1)
                  ELSE acc,
          variant |-> "enuminfo"]
    ELSE IF self.ptype = "string"
    THEN IF truthy(self.default)
         THEN [acc |-> strings_getitems(acc, <<self.default>>, 1),
               variant |-> "defaultString"]
         ELSE [acc |-> acc, variant |-> ""]
    ELSE IF self.ptype = "number" THEN [acc |-> acc, variant |-> "number"]
    ELSE IF self.ptype = "integer"
    THEN [acc |-> acc,
          variant |-> IF self.intrange.bits > 32
                      THEN (IF self.intrange.is_signed THEN "int64" ELSE "uint64")
                      ELSE (IF self.intrange.is_signed THEN "int32" ELSE "uint32")]
    ELSE [acc |-> acc, variant |-> ""]

\* Lines 1078-1085: the entry of the property `own` once its name and its
\* variant are known (info)
property_entry(info, own, ident, offset, size) ==
    advance(add_alias([info.acc EXCEPT
                            !.proplist = Append(@, [type |-> own.property_type,
                                                    name |-> ident,
                                                    offset |-> offset,
                                                    object |-> 0,
                                                    variant |-> info.variant])],
                      own.alias),
            size)

\* Lines 1078-1085: the entry of the property `own`, named as `named`
property_named(acc, own, named, size) ==
    property_entry(getVariantInfo(looked_up(acc, named), own), own,
                   named.ident, acc.offset, size)

\* Lines 1077-1085: the entries of the properties, from the i-th on
RECURSIVE typeinfo_properties(_, _, _, _, _)
typeinfo_properties(objs, prs, self, acc, i) ==
    IF acc.err # "" \/ i > Len(objs[self].properties) THEN acc
    ELSE typeinfo_properties(
            objs, prs, self,
            property_named(acc, prs[objs[self].properties[i]],
                           entry_name(acc, objs[self].class = "Array",
                                      prs[objs[self].properties[i]].name),
                           property_data_size(objs, prs, objs[self].properties[i], {})),
            i + 1)

\* Array.items
array_items(objs, prs, self) ==
    IF objs[self].object_properties # <<>>
    THEN prs[objs[self].object_properties[1]]
    ELSE prs[objs[self].properties[1]]

\* Lines 1087-1116: the default data of an array
typeinfo_default(objs, prs, self, acc) ==
    LET arr   == objs[self]
        items == array_items(objs, prs, self)
    IN  IF acc.err # "" \/ arr.class # "Array" \/ ~truthy(arr.default) THEN acc
        ELSE IF truthy(items.enum)
        THEN IF \E i \in DOMAIN arr.default.items :
                    ~py_in(arr.default.items[i], items.enum.items)
             THEN [acc EXCEPT !.err = "ValueError: is not in list"]
             ELSE acc
        ELSE IF items.ptype = "string"
        THEN strings_getitems(acc, arr.default.items, 1)
        ELSE acc

\* Object.classname, Array.classname
classname(self) ==
    IF self.class = "Array"
    THEN (IF self.object_properties # <<>> THEN "ObjectArray" ELSE "Array")
    ELSE self.class

\* Object.has_struct
has_struct(self) == self.object_properties # <<>> \/ self.properties # <<>>

\* Lines 1074-1075: what the offset grows by after the entries of the children
union_step(objs, prs, self) ==
    IF objs[self].class = "Union" THEN max_object_size(objs, prs, self, {})
    ELSE Size(0)

\* Lines 1118-1138: the ObjectInfo of the Object obj, numbered self, with
\* the lists and the string table that lines 1061-1116 left (done)
ObjectInfo(obj, self, done) ==
    [err |-> done.err,
     obj |-> self,
     type |-> classname(obj),
     defaultData |-> IF obj.class = "Array"
                     THEN (IF truthy(obj.default) THEN "&defaultData_id" ELSE "nullptr")
                     ELSE (IF has_struct(obj) THEN "&defaultData" ELSE "nullptr"),
     structSize |-> IF obj.class = "Array" THEN "sizeof(ArrayId)"
                    ELSE IF has_struct(obj) THEN "sizeof(Struct)"
                    ELSE "0",
     objectCount |-> Len(obj.object_properties),
     propertyCount |-> Len(obj.properties),
     aliasCount |-> Len(done.aliaslist),
     proplist |-> done.proplist,
     aliaslist |-> done.aliaslist,
     keys |-> done.keys,
     values |-> done.values]

\* generate_typeinfo(db, object_prop) for an object_prop with the Object
\* self, on the string table ks, vs: the ObjectInfo it makes and the string
\* table it leaves
generate_typeinfo(objs, prs, ks, vs, self) ==
    ObjectInfo(
        objs[self], self,
        typeinfo_default(
            objs, prs, self,
            typeinfo_properties(
                objs, prs, self,
                advance(typeinfo_objects(objs, prs, self,
                                         [NoTypeinfo EXCEPT !.keys = ks, !.values = vs],
                                         1),
                        union_step(objs, prs, self)),
                1)))

-----------------------------------------------------------------------------
(* generate_database: the declaration and the definition stream            *)

S_Contained == <<"C", "o", "n", "t", "a", "i", "n", "e", "d">>

\* Object.typename_contained, Database.typename_contained
typename_contained(self) ==
    IF self.class = "Database" THEN object_typename(self)
    ELSE S_Contained \o object_typename(self)

\* Object.base_class, Array.base_class
base_class(objs, prs, self) ==
    IF objs[self].class = "Array" /\ array_items(objs, prs, self).ptype = "string"
    THEN "StringArray"
    ELSE classname(objs[self])

\* The Object of a Property or a Database held by its number (Database.obj
\* is the Database)
obj_of(prs, p) == IF p.kind = "Database" THEN p.id ELSE prs[p.id].obj

\* Property.is_item
is_item(objs, prs, self) == objs[obj_of(prs, prs[self].parent)].class = "Array"

\* Line 339: prop.database if prop.obj.ref else prop.parent
namespace_next(objs, prs, p) ==
    IF p.kind = "Database" THEN NoParent
    ELSE IF truthy_str(objs[prs[p.id].obj].ref)
    THEN DatabaseRef(property_database(prs, p))
    ELSE prs[p.id].parent

\* Lines 336-339: the loop of Property.namespace, from the Property or
\* Database p on
RECURSIVE namespace_loop(_, _, _, _)
namespace_loop(objs, prs, p, ns) ==
    IF p.kind = "None" THEN ns
    ELSE namespace_loop(objs, prs, namespace_next(objs, prs, p),
                        IF objs[obj_of(prs, p)].class = "Array" THEN ns
                        ELSE <<typename_contained(objs[obj_of(prs, p)])>> \o ns)

\* Property.namespace: the names that '::' joins
namespace(objs, prs, self) ==
    IF \/ truthy_str(objs[prs[self].obj].ref)
       \/ /\ is_item(objs, prs, self)
          /\ truthy_str(objs[obj_of(prs, prs[self].parent)].ref)
    THEN <<object_typename(objs[property_database(prs, PropertyRef(self))])>>
    ELSE namespace_loop(objs, prs, prs[self].parent, <<>>)

\* Lines 933-934: a line of the structure
structure_line(offset, indent, id, typename) ==
    [offset |-> offset, indent |-> indent, id |-> id, typename |-> typename]

\* What print_structure has made: the exception raised, the lines and the
\* offset
Structure(lines, offset) == [err |-> "", lines |-> lines, offset |-> offset]

StructureError(err) == [err |-> err, lines |-> <<>>, offset |-> 0]

\* Lines 946-949: the lines of the properties, from the i-th on
RECURSIVE structure_properties(_, _, _, _, _, _)
structure_properties(objs, prs, obj, i, indent, offset) ==
    IF i > Len(objs[obj].properties) THEN <<>>
    ELSE <<structure_line(offset, indent, property_id(prs[objs[obj].properties[i]]),
                          prs[objs[obj].properties[i]].ctype)>>
         \o structure_properties(
                objs, prs, obj, i + 1, indent,
                IF objs[obj].class = "Union" THEN offset
                ELSE offset + scalar_data_size(prs[objs[obj].properties[i]]))

\* The lines made (rest) after the lines `lines`
structure_after(lines, rest) ==
    IF rest.err # "" THEN rest ELSE Structure(lines \o rest.lines, rest.offset)

RECURSIVE print_structure(_, _, _, _, _, _)

RECURSIVE structure_children(_, _, _, _, _, _, _)

\* Lines 940-942 for one child: its lines (printed), its size (step), then
\* the children after it
structure_child(objs, prs, obj, i, indent, offset, active, printed, step) ==
    IF printed.err # "" THEN printed
    ELSE IF step.err # "" THEN StructureError(step.err)
    ELSE structure_after(printed.lines,
                         structure_children(objs, prs, obj, i + 1, indent,
                                            offset + step.size, active))

\* Lines 939-942: the lines of the child objects, from the i-th on
structure_children(objs, prs, obj, i, indent, offset, active) ==
    IF i > Len(objs[obj].object_properties) THEN Structure(<<>>, offset)
    ELSE structure_child(
            objs, prs, obj, i, indent, offset, active,
            print_structure(objs, prs, objs[obj].object_properties[i], indent + 1,
                            offset, active),
            IF objs[obj].class = "Union" THEN Size(0)
            ELSE property_data_size(objs, prs, objs[obj].object_properties[i], {}))

\* Lines 943-949: the offset after the children of a union, then the lines
\* of the properties
structure_members(objs, prs, obj, indent, done, step) ==
    IF done.err # "" THEN done
    ELSE IF step.err # "" THEN StructureError(step.err)
    ELSE IF /\ objs[obj].class # "Union"
            /\ \E i \in DOMAIN objs[obj].properties :
                property_data_size(objs, prs, objs[obj].properties[i], {}).err # ""
    THEN StructureError("KeyError")
    ELSE Structure(done.lines
                   \o structure_properties(objs, prs, obj, 1, indent + 1,
                                           done.offset + step.size),
                   0)

\* print_structure(object_prop, indent, offset); active holds the Objects
\* being printed: an Object that holds itself is printed until RecursionError
print_structure(objs, prs, object_prop, indent, offset, active) ==
    IF prs[object_prop].obj \in active THEN StructureError("RecursionError")
    ELSE IF objs[prs[object_prop].obj].class = "Array"
    THEN Structure(<<structure_line(offset, indent, property_id(prs[object_prop]),
                                    base_class(objs, prs, prs[object_prop].obj))>>, 0)
    ELSE structure_after(
            <<structure_line(offset, indent, property_id(prs[object_prop]),
                             base_class(objs, prs, prs[object_prop].obj))>>,
            structure_members(
                objs, prs, prs[object_prop].obj, indent,
                structure_children(objs, prs, prs[object_prop].obj, 1, indent,
                                   offset, active \cup {prs[object_prop].obj}),
                IF objs[prs[object_prop].obj].class = "Union"
                THEN max_object_size(objs, prs, prs[object_prop].obj, {})
                ELSE Size(0)))

\* Line 952: the empty line after the structure of a store
BlankLine == structure_line(0, 0, <<>>, "")

\* Lines 951-952: the structure of a store (printed), the empty line and
\* the structure of the stores after it (rest)
structure_store(printed, rest) ==
    IF printed.err # "" THEN printed
    ELSE IF rest.err # "" THEN rest
    ELSE Structure(printed.lines \o <<BlankLine>> \o rest.lines, 0)

\* Lines 950-952: the structure of the stores, from the i-th on
RECURSIVE generate_structure_from(_, _, _, _)
generate_structure_from(objs, prs, db, i) ==
    IF i > Len(objs[db].object_properties) THEN Structure(<<>>, 0)
    ELSE structure_store(print_structure(objs, prs, objs[db].object_properties[i],
                                         0, 0, {}),
                         generate_structure_from(objs, prs, db, i + 1))

\* generate_structure(db)
generate_structure(objs, prs, db) == generate_structure_from(objs, prs, db, 1)

\* scan(obj) of depends_on(other), from the i-th property on: what it
\* returns and the list `dependencies` it leaves.  `prop.obj in dependencies`
\* finds the Object itself.
RECURSIVE scan(_, _, _, _, _, _)
scan(objs, prs, other, obj, i, dependencies) ==
    IF i > Len(objs[obj].object_properties)
    THEN [ret |-> FALSE, dependencies |-> dependencies]
    ELSE IF other = prs[objs[obj].object_properties[i]].obj
    THEN [ret |-> TRUE, dependencies |-> dependencies]
    ELSE IF \E j \in DOMAIN dependencies :
                dependencies[j] = prs[objs[obj].object_properties[i]].obj
    THEN scan(objs, prs, other, obj, i + 1, dependencies)
    ELSE scan(objs, prs, other, obj, i + 1,
              scan(objs, prs, other, prs[objs[obj].object_properties[i]].obj, 1,
                   Append(dependencies,
                          prs[objs[obj].object_properties[i]].obj)).dependencies)

\* Object.depends_on(other)
depends_on(objs, prs, self, other) == scan(objs, prs, other, self, 1, <<>>).ret

\* Object.__lt__(obj)
lt(objs, prs, self, obj) == depends_on(objs, prs, obj, self)

\* sorted(list), as list.sort does it for a list shorter than 64: count_run
\* finds the run the list starts with, a descending run is reversed, and
\* binarysort inserts the elements after the run.

\* count_run: the length of the descending run that list[1..n] starts
RECURSIVE run_descending(_, _, _, _)
run_descending(objs, prs, list, n) ==
    IF n < Len(list) /\ lt(objs, prs, list[n + 1], list[n])
    THEN run_descending(objs, prs, list, n + 1)
    ELSE n

\* count_run: the length of the ascending run that list[1..n] starts
RECURSIVE run_ascending(_, _, _, _)
run_ascending(objs, prs, list, n) ==
    IF n < Len(list) /\ ~lt(objs, prs, list[n + 1], list[n])
    THEN run_ascending(objs, prs, list, n + 1)
    ELSE n

\* reverse_slice of the first n elements
reverse_slice(list, n) ==
    [i \in DOMAIN list |-> IF i <= n THEN list[n + 1 - i] ELSE list[i]]

\* binarysort: the place of pivot in list[lo+1..hi], by bisection
RECURSIVE bisect(_, _, _, _, _, _)
bisect(objs, prs, list, pivot, lo, hi) ==
    IF lo >= hi THEN lo
    ELSE IF lt(objs, prs, pivot, list[lo + ((hi - lo) \div 2) + 1])
    THEN bisect(objs, prs, list, pivot, lo, lo + ((hi - lo) \div 2))
    ELSE bisect(objs, prs, list, pivot, lo + ((hi - lo) \div 2) + 1, hi)

\* list with the element at `start` moved to place l (both counted from 0)
inserted(list, start, l) ==
    [i \in DOMAIN list |->
        IF i - 1 < l \/ i - 1 > start THEN list[i]
        ELSE IF i - 1 = l THEN list[start + 1]
        ELSE list[i - 1]]

\* binarysort(lo, hi, start): list[1..start] is sorted
RECURSIVE binarysort(_, _, _, _)
binarysort(objs, prs, list, start) ==
    IF start >= Len(list) THEN list
    ELSE binarysort(objs, prs,
                    inserted(list, start,
                             bisect(objs, prs, list, list[start + 1], 0, start)),
                    start + 1)

\* sorted(list) of Objects
sorted(objs, prs, list) ==
    IF Len(list) < 2 THEN list
    ELSE IF lt(objs, prs, list[2], list[1])
    THEN binarysort(objs, prs,
                    reverse_slice(list, run_descending(objs, prs, list, 2)),
                    run_descending(objs, prs, list, 2))
    ELSE binarysort(objs, prs, list, run_ascending(objs, prs, list, 2))

\* dict.values()
dict_values(d) == [i \in DOMAIN d |-> d[i][2]]

\* What generate_database has made so far: the exception raised, the string
\* table, the classes declared in the declaration stream (each with its
\* depth of nesting and whether line 1274 declares its updater first) and
\* the ObjectInfo definitions in the definition stream
NoCode ==
    [err |-> "", keys |-> <<>>, values |-> <<>>, classes |-> <<>>, infos |-> <<>>]

\* Lines 776-791: db.forward_decls, each typename for its two class names
forward_decls(objs, db) ==
    {S_Root} \cup {object_typename(objs[objs[db].object_defs[i][2]]) :
                        i \in DOMAIN objs[db].object_defs}

\* Lines 1272-1324: the class of the Object self is declared
declared(objs, db, code, self, depth, info) ==
    [code EXCEPT !.keys = info.keys,
                 !.values = info.values,
                 !.classes = Append(@, [obj |-> self, depth |-> depth,
                                        forward |-> object_typename(objs[self])
                                                        \notin forward_decls(objs, db)])]

\* typeinfo.source: the ObjectInfo that generate_typeinfo made, without the
\* string table it left
typeinfo_source(info) ==
    [obj |-> info.obj, type |-> info.type, defaultData |-> info.defaultData,
     structSize |-> info.structSize, objectCount |-> info.objectCount,
     propertyCount |-> info.propertyCount, aliasCount |-> info.aliasCount,
     proplist |-> info.proplist, aliaslist |-> info.aliaslist]

\* Lines 1302, 1315, 1336: typeinfo.source is added
defined(code, info) ==
    IF code.err # "" THEN code
    ELSE [code EXCEPT !.infos = Append(@, typeinfo_source(info))]

RECURSIVE generate_object(_, _, _, _, _, _)

\* Lines 1291 and 1327-1329: generate_object for the child objects that are
\* not referenced ones, from the i-th on
RECURSIVE generate_children(_, _, _, _, _, _, _)
generate_children(objs, prs, db, code, self, i, depth) ==
    IF code.err # "" \/ i > Len(objs[self].object_properties) THEN code
    ELSE generate_children(
            objs, prs, db,
            IF truthy_str(objs[prs[objs[self].object_properties[i]].obj].ref) THEN code
            ELSE generate_object(objs, prs, db, code,
                                 prs[objs[self].object_properties[i]].obj, depth),
            self, i + 1, depth)

\* Lines 1270-1348 with the typeinfo of line 1269 (info)
generated_object(objs, prs, db, code, self, depth, info) ==
    IF info.err # "" THEN [code EXCEPT !.err = info.err]
    ELSE defined(generate_children(objs, prs, db,
                                   declared(objs, db, code, self, depth, info),
                                   self, 1, depth + 1),
                 info)

\* generate_object(db, object_prop) for an object_prop with the Object self.
\* Below more Objects than there are, an Object is below itself and
\* generate_object calls itself until RecursionError.
generate_object(objs, prs, db, code, self, depth) ==
    IF code.err # "" THEN code
    ELSE IF depth > Len(objs) THEN [code EXCEPT !.err = "RecursionError"]
    ELSE generated_object(objs, prs, db, code, self, depth,
                          generate_typeinfo(objs, prs, code.keys, code.values, self))

\* Lines 838-840: generate_object for each of the sorted definitions, from
\* the i-th on
RECURSIVE generate_defs(_, _, _, _, _, _)
generate_defs(objs, prs, db, code, defs, i) ==
    IF code.err # "" \/ i > Len(defs) THEN code
    ELSE generate_defs(objs, prs, db,
                       generate_object(objs, prs, db, code, defs[i], 0),
                       defs, i + 1)

\* Lines 842-844: generate_object for the stores that are not referenced
\* objects, from the i-th on down
RECURSIVE generate_stores(_, _, _, _, _)
generate_stores(objs, prs, db, code, i) ==
    IF code.err # "" \/ i < 1 THEN code
    ELSE generate_stores(
            objs, prs, db,
            IF truthy_str(objs[prs[objs[db].object_properties[i]].obj].ref) THEN code
            ELSE generate_object(objs, prs, db, code,
                                 prs[objs[db].object_properties[i]].obj, 0),
            i - 1)

\* Lines 823-832: the DatabaseInfo; the names are looked up in the string
\* table of code
database_entry(info, got, obj) ==
    [info EXCEPT !.keys = got.keys,
                 !.values = got.values,
                 !.stores = Append(@, [name |-> got.ident, object |-> obj])]

RECURSIVE database_entries(_, _, _, _, _)
database_entries(objs, prs, db, info, i) ==
    IF i > Len(objs[db].object_properties) THEN info
    ELSE database_entries(
            objs, prs, db,
            database_entry(info,
                           strings_getitem(info.keys, info.values,
                                           prs[objs[db].object_properties[i]].name),
                           prs[objs[db].object_properties[i]].obj),
            i + 1)

\* Line 823: the DatabaseInfo with the name that db.strings[db.name] returned
database_named(got) ==
    [keys |-> got.keys, values |-> got.values, name |-> got.ident, stores |-> <<>>]

\* Lines 821-836
database_info(objs, prs, db, ks, vs) ==
    database_entries(objs, prs, db,
                     database_named(strings_getitem(ks, vs, objs[db].name)), 1)

\* find_unions(object_prop) of lines 880-887 for the Object self, from the
\* i-th property on: the unions found, by name, in the order of their first
\* entry.  active holds the Objects being searched: an Object reached from
\* itself is searched until RecursionError.
RECURSIVE find_unions(_, _, _, _, _, _, _)
find_unions(objs, prs, db, self, i, active, unions) ==
    IF unions.err # "" \/ i > Len(objs[self].object_properties) THEN unions
    ELSE LET child == objs[self].object_properties[i]
         IN  find_unions(
                objs, prs, db, self, i + 1, active,
                IF objs[prs[child].obj].class = "Union"
                THEN (IF objs[prs[child].obj].schema_id = objs[db].schema_id
                      THEN [unions EXCEPT
                                !.found = dict_set(@, <<namespace(objs, prs, child),
                                                        typename_contained(objs[prs[child].obj])>>,
                                                   prs[child].obj)]
                      ELSE unions)
                ELSE IF prs[child].obj \in active
                THEN [unions EXCEPT !.err = "RecursionError"]
                ELSE find_unions(objs, prs, db, prs[child].obj, 1,
                                 active \cup {prs[child].obj}, unions))

\* Line 902: a case of toString, with the identifier looked up (got)
tostring_case(acc, got) ==
    [keys |-> got.keys, values |-> got.values, cases |-> Append(acc.cases, got.ident)]

\* Line 902: the cases of toString for the options of a union, from the i-th on
RECURSIVE tostring_cases(_, _, _, _, _)
tostring_cases(objs, prs, self, acc, i) ==
    IF i > Len(objs[self].object_properties) THEN acc
    ELSE tostring_cases(
            objs, prs, self,
            tostring_case(acc, strings_getitem(acc.keys, acc.values,
                                               prs[objs[self].object_properties[i]].name)),
            i + 1)

\* Lines 892-907: toString of the union named typename, with its cases (made)
tostring(acc, typename, made) ==
    [keys |-> made.keys, values |-> made.values,
     decls |-> Append(acc.decls, [typename |-> typename, cases |-> made.cases])]

\* Lines 891-907: toString for each union found, from the i-th on
RECURSIVE tostrings(_, _, _, _, _)
tostrings(objs, prs, found, acc, i) ==
    IF i > Len(found) THEN acc
    ELSE tostrings(objs, prs, found,
                   tostring(acc, found[i][1],
                            tostring_cases(objs, prs, found[i][2],
                                           [keys |-> acc.keys, values |-> acc.values,
                                            cases |-> <<>>], 1)),
                   i + 1)

\* Line 917: DEFINE_FSTR for every string of the table that is not empty
RECURSIVE define_fstr(_, _, _)
define_fstr(ks, vs, i) ==
    IF i > Len(ks) THEN <<>>
    ELSE (IF vs[i] # <<>> THEN << <<STRING_PREFIX \o ks[i], vs[i]>> >> ELSE <<>>)
         \o define_fstr(ks, vs, i + 1)

\* Object.get_offset(obj) of the Object self, from its i-th child on with
\* the offset so far
RECURSIVE get_offset_from(_, _, _, _, _, _)
get_offset_from(objs, prs, self, obj, i, offset) ==
    IF offset.err # "" THEN offset
    ELSE IF i > Len(objs[self].object_properties)
    THEN SizeError("AssertionError: Not a child")
    ELSE IF prs[objs[self].object_properties[i]].obj = obj THEN offset
    ELSE get_offset_from(objs, prs, self, obj, i + 1,
                         plus(offset,
                              property_data_size(objs, prs,
                                                 objs[self].object_properties[i], {})))

\* Object.get_offset(obj)
get_offset(objs, prs, self, obj) == get_offset_from(objs, prs, self, obj, 1, Size(0))

\* Lines 297-300: the first Property with is_store from self up
RECURSIVE store_of(_, _)
store_of(prs, self) ==
    IF prs[self].is_store THEN self ELSE store_of(prs, prs[self].parent.id)

\* Lines 301-306: how many of the object_properties before `store` have
\* is_store
stores_before(prs, list, store) ==
    Cardinality({i \in DOMAIN list : i <= index(list, store) /\ prs[list[i]].is_store})

\* Property.store_index
store_index(objs, prs, self) ==
    stores_before(prs, objs[property_database(prs, PropertyRef(self))].object_properties,
                  store_of(prs, self))

\* Line 858: the parameters of the OuterObjectTemplate of object_prop, a
\* member of the Object parent
outer_class(objs, prs, parent, object_prop, store_offset) ==
    [prop |-> object_prop,
     store_index |-> store_index(objs, prs, object_prop),
     parent |-> parent,
     index |-> index(objs[parent].object_properties, object_prop),
     store_offset |-> store_offset]

RECURSIVE generate_outer_class(_, _, _, _, _)

\* Line 870: generate_outer_class for the children of the Object obj, from
\* the i-th on
RECURSIVE generate_outer_classes(_, _, _, _, _)
generate_outer_classes(objs, prs, obj, store_offset, i) ==
    IF i > Len(objs[obj].object_properties) THEN <<>>
    ELSE generate_outer_class(objs, prs, obj, objs[obj].object_properties[i], store_offset)
         \o generate_outer_classes(objs, prs, obj, store_offset, i + 1)

\* generate_outer_class(parent, object_prop, store_offset), lines 856-875:
\* the outer classes declared, each before those nested in it
generate_outer_class(objs, prs, parent, object_prop, store_offset) ==
    <<outer_class(objs, prs, parent, object_prop, store_offset)>>
    \o (IF /\ objs[prs[object_prop].obj].object_properties # <<>>
           /\ objs[prs[object_prop].obj].class # "Union"
           /\ ~is_item(objs, prs, object_prop)
        THEN generate_outer_classes(
                objs, prs, prs[object_prop].obj,
                IF prs[object_prop].is_store THEN store_offset
                ELSE store_offset + get_offset(objs, prs, parent, prs[object_prop].obj).size,
                1)
        ELSE <<>>)

\* Lines 876-877: the outer classes of the object_properties of the Database
\* db, from the i-th on
RECURSIVE generate_outer(_, _, _, _)
generate_outer(objs, prs, db, i) ==
    IF i > Len(objs[db].object_properties) THEN <<>>
    ELSE generate_outer_class(objs, prs, db, objs[db].object_properties[i], 0)
         \o generate_outer(objs, prs, db, i + 1)

\* What generate_database returns or raises, and the string table it leaves
Code(err, ks, vs, header, source) ==
    [err |-> err, keys |-> ks, values |-> vs, header |-> header, source |-> source]

NoHeader ==
    [structure |-> <<>>, include |-> {}, external_defs |-> <<>>,
     forward_decls |-> {}, classes |-> <<>>, outer |-> <<>>, unions |-> <<>>]

NoSource ==
    [strings |-> <<>>, name |-> <<>>, stores |-> <<>>, infos |-> <<>>,
     tostring |-> <<>>]

\* Lines 889-927: the two streams, with the toString of the unions found
\* (made) and the strings defined in the table they left
generate_streams(objs, prs, db, structure, info, code, made) ==
    Code("", made.keys, made.values,
         [structure |-> structure,
          include |-> {objs[objs[db].external_objects[i][2]].schema_id :
                            i \in DOMAIN objs[db].external_objects},
          external_defs |-> dict_values(objs[db].external_objects),
          forward_decls |-> forward_decls(objs, db),
          classes |-> code.classes,
          outer |-> generate_outer(objs, prs, db, 1),
          unions |-> [i \in DOMAIN made.decls |-> made.decls[i].typename]],
         [strings |-> define_fstr(made.keys, made.values, 1),
          name |-> info.name,
          stores |-> info.stores,
          infos |-> code.infos,
          tostring |-> made.decls])

\* Lines 879-927, after the classes of lines 838-877 (code) and with the
\* unions that find_unions(db) found
generate_unions(objs, prs, db, structure, info, code, unions) ==
    IF code.err # "" THEN Code(code.err, code.keys, code.values, NoHeader, NoSource)
    ELSE IF unions.err # ""
    THEN Code(unions.err, code.keys, code.values, NoHeader, NoSource)
    ELSE generate_streams(objs, prs, db, structure, info, code,
                          tostrings(objs, prs, unions.found,
                                    [keys |-> code.keys, values |-> code.values,
                                     decls |-> <<>>], 1))

\* Lines 838-927, after the DatabaseInfo of lines 821-836 (info)
generate_classes(objs, prs, db, structure, info) ==
    generate_unions(
        objs, prs, db, structure, info,
        generate_stores(
            objs, prs, db,
            generate_defs(objs, prs, db,
                          [NoCode EXCEPT !.keys = info.keys, !.values = info.values],
                          sorted(objs, prs, dict_values(objs[db].object_defs)), 1),
            Len(objs[db].object_properties)),
        find_unions(objs, prs, db, db, 1, {}, [err |-> "", found |-> <<>>]))

\* Lines 793-927, with the structure of line 796
generate_structured(objs, prs, ks, vs, db, structure) ==
    IF structure.err # "" THEN Code(structure.err, ks, vs, NoHeader, NoSource)
    ELSE generate_classes(objs, prs, db, structure.lines,
                          database_info(objs, prs, db, ks, vs))

\* generate_database(db) on the string table ks, vs that the Databases share
generate_database(objs, prs, ks, vs, db) ==
    generate_structured(objs, prs, ks, vs, db, generate_structure(objs, prs, db))

-----------------------------------------------------------------------------
(* The documents that are loaded and parsed                                *)

N_A == <<"A">>

N_B == <<"B">>

\* "#/$defs/D", "#/$defs/E", "#/$defs/X", "A/$defs/D", "A/$defs/X",
\* "#/properties/b", "A/properties/b"
RefD == join(<< <<"#">>, S_defs, <<"D">> >>)

RefE == join(<< <<"#">>, S_defs, <<"E">> >>)

RefX == join(<< <<"#">>, S_defs, <<"X">> >>)

RefAD == join(<< N_A, S_defs, <<"D">> >>)

RefAX == join(<< N_A, S_defs, <<"X">> >>)

RefB == join(<< <<"#">>, S_properties, <<"b">> >>)

RefAB == join(<< N_A, S_properties, <<"b">> >>)

\* "A/$defs/E"
RefAE == join(<< N_A, S_defs, <<"E">> >>)

\* {"$ref": ref, "default": 5, "minimum": 1}
Overriding(ref) == [Ref(ref) EXCEPT !.default = IntV(5), !.minimum = IntV(1)]

\* {"type": "object", "properties": {"s": {"type": "string"}}}
OneString(name) == ObjectOf(<< <<name, Scalar("string")>> >>)

\* $defs/D: an object, an array, a union of two objects with one string
\* each, a scalar
DefD ==
    { ObjectOf(<< << <<"x">>, Integer(0, 300)>>, << <<"s">>, Scalar("string")>> >>),
      ArrayOf(Integer(0, 70000)),
      OneOf(<< Titled(<<"V">>, OneString(<<"s">>)), Titled(<<"W">>, OneString(<<"t">>)) >>),
      Integer(0, 300) }

\* $defs/E: a reference to D, an object with D as a child, an object that
\* holds itself, a union with D as an option
DefE ==
    { Ref(RefD),
      ObjectOf(<< << <<"n">>, Scalar("number")>>, << <<"d">>, Ref(RefD)>>,
                  << <<"f">>, Scalar("boolean")>> >>),
      ObjectOf(<< << <<"f">>, Scalar("boolean")>>, << <<"r">>, Ref(RefE)>> >>),
      OneOf(<< Ref(RefD), Titled(<<"W">>, ObjectOf(<< << <<"i">>, Integer(-1, 1)>> >>)) >>) }

\* A property of the root: scalars, references (to a definition, to a chain,
\* to a property, to nothing), an inline object, an array of references, a
\* store with an enum
Fragments ==
    { Integer(-129, 70000),
      Scalar("string"),
      Ref(RefD),
      Ref(RefE),
      Ref(RefAD),
      Ref(RefB),
      ObjectOf(<< << <<"q">>, Ref(RefD)>>, << <<"f">>, Scalar("boolean")>> >>),
      ArrayOf(Ref(RefD)),
      Stored(ObjectOf(<< << <<"k">>, Integer(0, 1)>>,
                         << <<"m">>, Enum("string", <<StrV("a"), StrV("b")>>)>> >>)),
      Ref(RefX) }

LastFragments ==
    { Ref(RefE), Ref(RefB) }

\* A property of the root with a "store": next to a "$ref", and below the
\* root next to a "$ref", inline, and inside another store
Stores ==
    { Stored(Ref(RefD)),
      ObjectOf(<< << <<"q">>, Stored(Ref(RefD))>> >>),
      ObjectOf(<< << <<"q">>, Stored(OneString(<<"s">>))>> >>),
      Stored(ObjectOf(<< << <<"q">>, Stored(OneString(<<"s">>))>> >>)) }

\* A union with an option without a title, with a scalar as an option, with
\* an option whose title gives no identifier, and without options
Unions ==
    { OneOf(<< Titled(<<"V">>, OneString(<<"s">>)), OneString(<<"t">>) >>),
      OneOf(<< Titled(<<"V">>, OneString(<<"s">>)), Titled(<<"W">>, Scalar("integer")) >>),
      OneOf(<< Titled(<<"-">>, OneString(<<"s">>)) >>),
      OneOf(<<>>) }

\* An array of integers, an array of objects, an object and a union, each
\* with a default
Defaulted ==
    { WithDefault(ArrayOf(Integer(0, 10)), ListV(<<IntV(1), IntV(2)>>)),
      WithDefault(ArrayOf(OneString(<<"s">>)), ListV(<<>>)),
      WithDefault(OneString(<<"s">>), IntV(5)),
      WithDefault(OneOf(<< Titled(<<"V">>, OneString(<<"s">>)) >>), IntV(5)) }

\* An object that holds an array whose items are the object given by ref
ListOf(ref) ==
    ObjectOf(<< << <<"f">>, Scalar("boolean")>>, << <<"r">>, ArrayOf(Ref(ref))>> >>)

\* The document A
DocumentA(d, e, a, b, c) ==
    <<N_A, Document(<< << <<"D">>, d>>, << <<"E">>, e>> >>,
                    << << <<"a">>, a>>, << <<"b">>, b>>, << <<"c">>, c>> >>)>>

\* The document B, whose property refers to A
DocumentB(x) ==
    <<N_B, Document(<<>>, << << <<"x">>, x>>, << <<"y">>, x>> >>)>>

\* Documents with an array whose items are an object that is being built:
\* the definition E that holds the array, also below an object in between
\* and as an option of a union; the property b that holds the array; the
\* array D itself; E reached first from the document B
Recursive ==
    { <<DocumentA(Integer(0, 300), ListOf(RefE), Scalar("string"), Ref(RefD), Ref(RefE))>>,
      <<DocumentA(Integer(0, 300), ObjectOf(<< << <<"n">>, ListOf(RefE)>> >>),
                  Ref(RefE), Scalar("string"), Ref(RefE))>>,
      <<DocumentA(Integer(0, 300),
                  OneOf(<< Titled(<<"V">>, ListOf(RefE)), Titled(<<"W">>, OneString(<<"t">>)) >>),
                  Scalar("string"), Scalar("string"), Ref(RefE))>>,
      <<DocumentA(Integer(0, 300), Ref(RefD), Scalar("string"), ListOf(RefB), Ref(RefD))>>,
      <<DocumentA(Integer(0, 300), Ref(RefD), Ref(RefB), ListOf(RefB), Ref(RefD))>>,
      <<DocumentA(ArrayOf(Ref(RefD)), Ref(RefD), Scalar("string"), Scalar("string"),
                  Ref(RefE))>>,
      <<DocumentB(Ref(RefAE)),
        DocumentA(Integer(0, 300), ListOf(RefE), Scalar("string"), Scalar("string"),
                  Ref(RefD))>> }

\* Documents with a definition E that holds the definition D below an
\* inline object, and below an inline object next to D itself
Nested ==
    { <<DocumentA(d, ObjectOf(<< << <<"n">>, ObjectOf(<< << <<"d">>, Ref(RefD)>> >>)>> >>),
                  Scalar("string"), Scalar("string"), Ref(RefE))>> : d \in DefD }
    \cup
    { <<DocumentA(OneString(<<"s">>),
                  ObjectOf(<< << <<"n">>, ObjectOf(<< << <<"d">>, Ref(RefD)>> >>)>>,
                              << <<"d">>, Ref(RefD)>> >>),
                  Scalar("string"), Scalar("string"), Ref(RefE))>> }

\* {"$ref": ref, "type": "integer", "maximum": 7, "default": 5}
Limited(ref) ==
    [Ref(ref) EXCEPT !.type = StrV("integer"), !.maximum = IntV(7), !.default = IntV(5)]

\* Documents with a property that refers to a dict that refers to the
\* scalar D and has keys of its own: the definition E, for a property with
\* and without keys of its own; the property b, before and after the
\* property that refers to it; E reached from the document B, loaded after
\* and before A
Chained ==
    { <<DocumentA(Integer(0, 300), Limited(RefD), a, Scalar("string"), Ref(RefD))>> :
        a \in {Ref(RefE), Overriding(RefE)} }
    \cup
    { <<DocumentA(Integer(0, 300), Ref(RefD), Ref(RefB), Limited(RefD), Ref(RefB))>>,
      <<DocumentA(Integer(0, 300), Limited(RefD), Scalar("string"), Scalar("string"),
                  Ref(RefD)),
        DocumentB(Ref(RefAE))>>,
      <<DocumentB(Ref(RefAE)),
        DocumentA(Integer(0, 300), Limited(RefD), Scalar("string"), Scalar("string"),
                  Ref(RefD))>> }

\* dict with the key "alias"
Alias(dict, alias) == [dict EXCEPT !.alias = alias]

\* Documents with aliases: an object whose child object has one, whose
\* first property has a list of two, whose second has none and whose third
\* has one; an array whose items have one; a property of the root with one,
\* or with a list that holds a list and a number
Aliased ==
    { <<DocumentA(Integer(0, 300), Ref(RefD),
                  ObjectOf(<< << <<"q">>, Alias(OneString(<<"s">>), StrV("o"))>>,
                              << <<"k">>, Alias(Integer(0, 1),
                                                ListV(<<StrV("x"), StrV("y")>>))>>,
                              << <<"m">>, Scalar("boolean")>>,
                              << <<"n">>, Alias(Scalar("string"), StrV("z"))>> >>),
                  b, Ref(RefD))>> :
        b \in { ArrayOf(Alias(Integer(0, 10), StrV("v"))),
                Alias(Scalar("string"), StrV("w")),
                Alias(Scalar("string"),
                      ListV(<<ListV(<<StrV("w")>>), IntV(1), StrV("k")>>)) } }

\* Documents with stores: the definition E, which has the definition D as a
\* child, as a property of the root and as a store; as two stores; and a
\* store with an inline object that has a child
Shared ==
    { <<DocumentA(OneString(<<"s">>),
                  ObjectOf(<< << <<"n">>, Scalar("number")>>, << <<"d">>, Ref(RefD)>>,
                              << <<"f">>, Scalar("boolean")>> >>),
                  a, Stored(Ref(RefE)), Ref(RefD))>> :
        a \in {Ref(RefE), Stored(Ref(RefE)), Scalar("string")} }
    \cup
    { <<DocumentA(OneString(<<"s">>), Ref(RefD),
                  Stored(ObjectOf(<< << <<"q">>, OneString(<<"s">>)>>,
                                     << <<"f">>, Scalar("boolean")>> >>)),
                  Stored(ObjectOf(<< << <<"q">>, OneString(<<"t">>)>> >>)),
                  Ref(RefD))>> }

\* The lists of documents given on the command line: A alone; A and B, in
\* either order; A, and A before B, with a property that has keys of its own
\* next to its "$ref"; A with a store; A with a union; A with a default on an
\* object, an array or a union; A with a property of the type "null"; B
\* alone, whose properties refer to a document that is not loaded; A with D
\* and E referring to each other; A before B, whose properties refer to a
\* definition that A does not have; A with a definition E that no property
\* uses and that refers to a definition that A does not have; the documents
\* with an array of the object that is being built; the documents with a
\* definition below an inline object of another; the documents with a
\* reference to a reference to a scalar; the documents with aliases; the
\* documents with a definition in two stores
Documents ==
    { <<DocumentA(d, e, a, b, c)>> :
        d \in DefD, e \in DefE, a \in Fragments, b \in Fragments, c \in LastFragments }
    \cup
    UNION { { <<DocumentA(d, Ref(RefD), Ref(RefB), b, Ref(RefD)), DocumentB(x)>>,
              <<DocumentB(x), DocumentA(d, Ref(RefD), Ref(RefB), b, Ref(RefD))>> } :
            d \in DefD,
            b \in {Ref(RefD), ObjectOf(<< << <<"f">>, Scalar("boolean")>> >>)},
            x \in {Ref(RefAD), Ref(RefAB)} }
    \cup
    { <<DocumentA(d, Ref(RefD), Overriding(ref), Scalar("string"), Ref(RefE))>> :
        d \in DefD, ref \in {RefD, RefE} }
    \cup
    { <<DocumentA(d, Ref(RefD), a, Ref(RefD), Ref(RefE))>> :
        d \in DefD, a \in Stores }
    \cup
    { <<DocumentA(Integer(0, 300), Ref(RefD), a, Scalar("string"), Ref(RefE))>> :
        a \in Unions }
    \cup
    { <<DocumentA(Integer(0, 300), Ref(RefD), a, Scalar("string"), Ref(RefE))>> :
        a \in Defaulted }
    \cup
    { <<DocumentA(Integer(0, 300), Ref(RefD), Ref(RefD), Ref(RefD), Ref(RefE)),
        DocumentB(Overriding(RefAD))>>,
      <<DocumentA(Integer(0, 300), Ref(RefD), Scalar("null"), Scalar("string"),
                  Ref(RefE))>>,
      <<DocumentA(Integer(0, 300), Ref(RefD),
                  ObjectOf(<< << <<"q">>, Scalar("null")>>,
                              << <<"f">>, Scalar("boolean")>> >>),
                  Scalar("string"), Ref(RefE))>>,
      <<DocumentB(Ref(RefAD))>>,
      <<DocumentA(Ref(RefE), Ref(RefD), Ref(RefD), Scalar("string"), Ref(RefE))>>,
      <<DocumentA(Integer(0, 300), Ref(RefD), Ref(RefD), Ref(RefD), Ref(RefE)),
        DocumentB(Ref(RefAX))>>,
      <<DocumentA(Integer(0, 300), Ref(RefX), Scalar("string"), Scalar("string"),
                  Ref(RefD))>> }
    \cup
    Recursive
    \cup
    Nested
    \cup
    Chained
    \cup
    Aliased
    \cup
    Shared

\* The ObjectInfo of no object
NoObjectInfo ==
    [err |-> "", obj |-> 0, type |-> "", defaultData |-> "", structSize |-> "",
     objectCount |-> 0, propertyCount |-> 0, aliasCount |-> 0,
     proplist |-> <<>>, aliaslist |-> <<>>, keys |-> <<>>, values |-> <<>>]

ParseIdle ==
    /\ cfgfiles = <<>>
    /\ schema = <<>>
    /\ objects = <<>>
    /\ props = <<>>
    /\ attached = <<>>
    /\ walked = <<>>
    /\ merges = <<>>
    /\ error = ""
    /\ typeinfo = NoObjectInfo
    /\ output = <<>>
    /\ files = <<>>

-----------------------------------------------------------------------------
(* IntRange.deduce, step by step                                           *)

DeduceIdle ==
    /\ minval = 0
    /\ maxval = 0
    /\ r = deduce_first(0, 0)

StringsIdle ==
    /\ StringTableInit
    /\ returned = <<>>

PropIdle ==
    /\ fields = NoFields
    /\ prop = NoProperty
    /\ properties = <<>>

InitDeduce ==
    /\ minval \in IntValues
    /\ maxval \in IntValues
    /\ r = deduce_first(minval, maxval)
    /\ pc = "deduce"
    /\ StringsIdle
    /\ PropIdle
    /\ ParseIdle

\* while minval < r.typemin or maxval > r.typemax: r.bits *= 2
DeduceWiden ==
    /\ pc = "deduce"
    /\ deduce_widen(minval, maxval, r)
    /\ r' = [r EXCEPT !.bits = @ * 2]
    /\ UNCHANGED <<pc, minval, maxval>>
    /\ UNCHANGED stringVars
    /\ UNCHANGED propVars
    /\ UNCHANGED parseVars

\* return r
DeduceReturn ==
    /\ pc = "deduce"
    /\ ~deduce_widen(minval, maxval, r)
    /\ pc' = "deduced"
    /\ UNCHANGED deduceVars
    /\ UNCHANGED stringVars
    /\ UNCHANGED propVars
    /\ UNCHANGED parseVars

NextDeduce ==
    \/ DeduceWiden
    \/ DeduceReturn

\* The loop runs to its end: nothing else is scheduled.
SpecDeduce == InitDeduce /\ [][NextDeduce]_vars /\ WF_vars(NextDeduce)

-----------------------------------------------------------------------------
(* StringTable lookups                                                     *)

InitStrings ==
    /\ pc = "strings"
    /\ DeduceIdle
    /\ StringsIdle
    /\ PropIdle
    /\ ParseIdle

\* StringTable.__getitem__(value) for a string value: the identifier
\* STRING_PREFIX + self.keys[self.get_index(str(value))]
GetItem(value) ==
    LET got   == get_index(keys, values, value)
        ident == STRING_PREFIX \o got.keys[got.index + 1]
        seen  == IF value \in DOMAIN returned THEN returned[value] ELSE {}
    IN  /\ pc \in {"strings", "found", "appended"}
        /\ pc' = IF got.keys = keys THEN "found" ELSE "appended"
        /\ keys' = got.keys
        /\ values' = got.values
        /\ returned' = [v \in DOMAIN returned \cup {value} |->
                          IF v = value
                          THEN seen \cup {<<got.index, ident>>}
                          ELSE returned[v]]
        /\ UNCHANGED deduceVars
        /\ UNCHANGED propVars
        /\ UNCHANGED parseVars

NextStrings ==
    \E value \in StrValues : GetItem(value)

SpecStrings == InitStrings /\ [][NextStrings]_vars

-----------------------------------------------------------------------------
(* parse_property of a scalar property without a $ref                      *)

InitProp ==
    /\ pc = "parse"
    /\ fields \in ScalarFields
    /\ prop = NoProperty
    /\ properties = <<>>
    /\ DeduceIdle
    /\ StringsIdle
    /\ ParseIdle

\* prop = Property(parent_prop, key, fields)
\* parent_prop.obj.properties.append(prop)
ParseScalar ==
    LET built == Property(PropertyRef(1), <<"p">>, fields)
    IN  /\ pc = "parse"
        /\ built.err = ""
        /\ prop' = built
        /\ properties' = Append(properties, built)
        /\ pc' = "parsed"
        /\ UNCHANGED fields
        /\ UNCHANGED deduceVars
        /\ UNCHANGED stringVars
        /\ UNCHANGED parseVars

\* Property(parent_prop, key, fields) raises
ParseScalarRaise ==
    LET built == Property(PropertyRef(1), <<"p">>, fields)
    IN  /\ pc = "parse"
        /\ built.err # ""
        /\ prop' = built
        /\ pc' = "raised"
        /\ UNCHANGED <<fields, properties>>
        /\ UNCHANGED deduceVars
        /\ UNCHANGED stringVars
        /\ UNCHANGED parseVars

NextProp ==
    \/ ParseScalar
    \/ ParseScalarRaise

SpecProp == InitProp /\ [][NextProp]_vars

-----------------------------------------------------------------------------
(* Parsing the databases and generating the type information               *)

\* Lines 1487-1489: every document is loaded
InitParse ==
    /\ pc = "loaded"
    /\ cfgfiles \in Documents
    /\ schema = load_schemas(<<>>, <<>>, cfgfiles).schema
    /\ objects = load_schemas(<<>>, <<>>, cfgfiles).objects
    /\ props = <<>>
    /\ attached = <<>>
    /\ walked = <<>>
    /\ merges = <<>>
    /\ error = ""
    /\ typeinfo = NoObjectInfo
    /\ output = <<>>
    /\ files = <<>>
    /\ DeduceIdle
    /\ StringsIdle
    /\ PropIdle

\* A Database that parse_database was called with has its root
IsParsed(obj) == obj.class = "Database" => obj.object_properties # <<>>

\* The state after parse_database returned or raised with st, or went into
\* the loop of lines 657-689
Parsed(st) ==
    /\ schema' = st.schema
    /\ objects' = st.objects
    /\ props' = st.props
    /\ attached' = st.attached
    /\ walked' = st.walked
    /\ merges' = st.merges
    /\ error' = IF st.err = "hang" THEN "" ELSE st.err
    /\ pc' = IF st.err = "hang" THEN "loop"
             ELSE IF st.err # "" THEN "failed"
             ELSE IF \A i \in DOMAIN st.objects : IsParsed(st.objects[i])
             THEN "parsed"
             ELSE "loaded"

\* Lines 1491-1493: parse_database(db) for the next db of databases.values().
\* It returns, or raises (the run ends), or stays in the loop of lines
\* 657-689.
ParseDatabase ==
    /\ pc = "loaded"
    /\ Parsed(parse_database(
                [schema |-> schema, objects |-> objects, props |-> props,
                 attached |-> attached, walked |-> walked, merges |-> merges,
                 err |-> "", ret |-> 0],
                CHOOSE i \in DOMAIN objects :
                    /\ ~IsParsed(objects[i])
                    /\ \A j \in 1..(i - 1) : IsParsed(objects[j])))
    /\ UNCHANGED <<cfgfiles, typeinfo, output, files>>
    /\ UNCHANGED deduceVars
    /\ UNCHANGED stringVars
    /\ UNCHANGED propVars

\* The state after generate_typeinfo made info
Generated(info) ==
    /\ typeinfo' = info
    /\ keys' = info.keys
    /\ values' = info.values
    /\ error' = info.err
    /\ pc' = IF info.err # "" THEN "failed" ELSE "generated"

\* generate_typeinfo(db, object_prop) of lines 1269, for the Object obj of
\* the schemas parsed
GenerateTypeinfo(obj) ==
    /\ pc = "parsed"
    /\ objects[obj].class # "Database"
    /\ Generated(generate_typeinfo(objects, props, keys, values, obj))
    /\ UNCHANGED <<cfgfiles, schema, objects, props, attached, walked, merges,
                   returned, output, files>>
    /\ UNCHANGED deduceVars
    /\ UNCHANGED propVars

NextParse ==
    \/ ParseDatabase
    \/ \E obj \in DOMAIN objects : GenerateTypeinfo(obj)

SpecParse == InitParse /\ [][NextParse]_vars

-----------------------------------------------------------------------------
(* Generating the streams and writing the files                            *)

\* How many times generate_database is called for one Database
Runs == 2

\* The Databases, in the order of databases.values()
Databases == {i \in DOMAIN objects : objects[i].class = "Database"}

\* The state after generate_database(db) returned or raised (code)
Emitted(db, code) ==
    /\ keys' = code.keys
    /\ values' = code.values
    /\ error' = code.err
    /\ output' = IF code.err # "" THEN output
                 ELSE Append(output, [db |-> db, header |-> code.header,
                                      source |-> code.source])

\* Lines 1500-1501: write_file of the two streams of the Database db, when
\* generate_database returned
Written(db, code) ==
    /\ files' = IF code.err # "" THEN files
                ELSE files \o << <<objects[db].name, ".h">>,
                                 <<objects[db].name, ".cpp">> >>
    /\ pc' = IF code.err # "" THEN "failed"
             ELSE IF db + 1 \in Databases THEN "parsed"
             ELSE "written"

\* Lines 1494-1501: generate_database(db) for the next db of
\* databases.values(), and its two files
GenerateDatabase ==
    /\ pc = "parsed"
    /\ Emitted(Len(files) \div 2 + 1,
               generate_database(objects, props, keys, values, Len(files) \div 2 + 1))
    /\ Written(Len(files) \div 2 + 1,
               generate_database(objects, props, keys, values, Len(files) \div 2 + 1))
    /\ UNCHANGED <<cfgfiles, schema, objects, props, attached, walked, merges,
                   typeinfo, returned>>
    /\ UNCHANGED deduceVars
    /\ UNCHANGED propVars

\* How many times generate_database(db) returned
Calls(db) == Cardinality({i \in DOMAIN output : output[i].db = db})

\* generate_database(db) called once more on the model that was built
Regenerate(db) ==
    /\ pc = "written"
    /\ db \in Databases
    /\ Calls(db) < Runs
    /\ Emitted(db, generate_database(objects, props, keys, values, db))
    /\ UNCHANGED <<pc, files, cfgfiles, schema, objects, props, attached, walked,
                   merges, typeinfo, returned>>
    /\ UNCHANGED deduceVars
    /\ UNCHANGED propVars

NextEmit ==
    \/ ParseDatabase
    \/ GenerateDatabase
    \/ \E db \in DOMAIN objects : Regenerate(db)

SpecEmit == InitParse /\ [][NextEmit]_vars

-----------------------------------------------------------------------------
(* Integer width                                                           *)

\* typemin <= v for the `bits` wide type: signed types start at -2^(bits-1),
\* unsigned ones at 0.  Every integer of the model is >= -2^31 and < 2^31.
LowestLeq(is_signed, bits, v) ==
    IF is_signed
    THEN bits - 1 > 30 \/ -(2 ^ (bits - 1)) <= v
    ELSE 0 <= v

\* typemax >= v for the `bits` wide type: signed types end at 2^(bits-1) - 1,
\* unsigned ones at 2^bits - 1.
HighestGeq(is_signed, bits, v) ==
    IF is_signed
    THEN bits - 1 > 30 \/ v <= 2 ^ (bits - 1) - 1
    ELSE bits > 30 \/ v <= 2 ^ bits - 1

\* The widths 8, 16, 32, 64 of the integer types of CPP_TYPESIZES.
Widths == {8, 16, 32, 64}

\* C2: IntRange.deduce(minimum, maximum) terminates, and the range it returns
\* is signed exactly when minimum < 0 and has typemin <= minimum and
\* typemax >= maximum; deduce(0, 300) is unsigned, 16 bits wide, 2 bytes.
C2_DeduceCovers ==
    /\ <>(pc = "deduced")
    /\ [](pc = "deduced" =>
            /\ r.is_signed = (minval < 0)
            /\ LowestLeq(r.is_signed, r.bits, minval)
            /\ HighestGeq(r.is_signed, r.bits, maxval)
            /\ r = deduce(minval, maxval)
            /\ (minval = 0 /\ maxval = 300 =>
                    /\ ~r.is_signed
                    /\ r.bits = 16
                    /\ ctype_of(r) = "uint16_t"
                    /\ CPP_TYPESIZES[ctype_of(r)] = 2))

C2_Witness ==
    /\ pc = "deduced"
    /\ minval = 0
    /\ maxval = 300
    /\ r.bits = 16

\* C3: the width IntRange.deduce returns is the smallest of 8, 16, 32, 64, ...
\* whose range, signed exactly when minimum < 0, has typemin <= minimum and
\* typemax >= maximum: every smaller width misses one of the two bounds.
C3_DeduceMinimal ==
    pc = "deduced" =>
        /\ r.bits \in Widths
        /\ \A b \in Widths :
              b < r.bits =>
                 ~(/\ LowestLeq(minval < 0, b, minval)
                   /\ HighestGeq(minval < 0, b, maxval))

C3_Witness ==
    /\ pc = "deduced"
    /\ minval = -129
    /\ maxval = 65536
    /\ r.bits = 32

-----------------------------------------------------------------------------
(* String table                                                            *)

IsPrefixOf(s, t) == Len(s) <= Len(t) /\ SubSeq(t, 1, Len(s)) = s

Distinct(list) ==
    \A i, j \in DOMAIN list : i # j => list[i] # list[j]

\* C6: a value looked up before gets the index and the identifier it got the
\* first time and adds no entry (the table has one entry per distinct
\* non-empty value looked up, after the pre-seeded one); the empty string
\* gets index 0 and the identifier fstr_empty whenever it is looked up.
C6_InternIdempotent ==
    /\ \A v \in DOMAIN returned : Cardinality(returned[v]) = 1
    /\ Len(values) = 1 + Cardinality(DOMAIN returned \ {<<>>})
    /\ <<>> \in DOMAIN returned =>
          returned[<<>>] = {<<0, <<"f", "s", "t", "r", "_", "e", "m", "p", "t", "y">> >>}

C6_Witness ==
    /\ pc = "found"
    /\ <<>> \in DOMAIN returned
    /\ Len(values) = Cardinality(StrValues)

\* C7: keys and values have the same length, no value and no identifier
\* occurs twice, and a lookup only appends: the entries there stay as they are.
C7_TableUnique ==
    /\ [](/\ Len(keys) = Len(values)
          /\ Distinct(values)
          /\ Distinct(keys))
    /\ [][IsPrefixOf(keys, keys') /\ IsPrefixOf(values, values')]_vars

\* The values "empty", "a-b" and "a_b", "!" and "1", and the two long values
\* are all in the table, so every pair with one identifier has met.
C7_Witness ==
    /\ Len(keys) = Cardinality(StrValues)
    /\ <<"e", "m", "p", "t", "y", "_", "0">> \in Elements(keys)
    /\ <<"a", "B", "_", "0">> \in Elements(keys)
    /\ <<"1", "_", "0">> \in Elements(keys)
    /\ Repeat("x", MAX_STRINGID_LEN) \o <<"_", "0">> \in Elements(keys)

-----------------------------------------------------------------------------
(* Enum properties                                                         *)

HasEnum(dict) == truthy(get(dict.enum))

HasBounds(dict) == dict.minimum # Absent \/ dict.maximum # Absent

Constructed == pc \in {"parsed", "raised"}

\* C8: for a property with a non-empty enum and a default supplied, whatever
\* its value: a default that is a member of the enum is stored as its
\* position in the list, and a default that is no member makes the
\* construction fail.
C8_EnumDefaultOrdinal ==
    (Constructed /\ HasEnum(fields) /\ fields.default # Absent) =>
        IF py_in(fields.default, fields.enum.items)
        THEN pc = "parsed" =>
                prop.default = IntV(py_index(fields.enum.items, fields.default))
        ELSE pc = "raised"

\* C9: a property with an enum of n >= 1 values is stored in the smallest
\* unsigned integer type of 8, 16, 32, 64 bits that holds every index
\* 0 .. n - 1.
C9_EnumWidthMinimal ==
    (pc = "parsed" /\ HasEnum(fields)) =>
        LET n    == Len(prop.enum.items)
            bits == 8 * scalar_data_size(prop)
        IN  /\ prop.ptype = "integer"
            /\ prop.ctype = "uint" \o ToString(bits) \o "_t"
            /\ HighestGeq(FALSE, bits, n - 1)
            /\ \A b \in Widths : b < bits => ~HighestGeq(FALSE, b, n - 1)

\* C10: the construction of a property whose fields hold a non-empty enum
\* together with a minimum or a maximum fails, and no such property is in
\* the property list of the parent object.
C10_EnumExcludesBounds ==
    /\ (Constructed /\ HasEnum(fields) /\ HasBounds(fields)) =>
            /\ pc = "raised"
            /\ prop.err # ""
    /\ properties # <<>> => ~(HasEnum(fields) /\ HasBounds(fields))
    /\ \A i \in DOMAIN properties :
            /\ properties[i].err = ""
            /\ properties[i] = prop

C10_Witness ==
    /\ pc = "raised"
    /\ HasEnum(fields)
    /\ fields.type = StrV("integer")
    /\ fields.default = IntV(2)
    /\ fields.minimum = IntV(0)
    /\ fields.maximum = Absent
    /\ prop.err = "ValueError: enum and minimum/maximum fields are mutually-exclusive"
    /\ properties = <<>>

-----------------------------------------------------------------------------
(* References                                                              *)

\* C1: any two properties whose "$ref" leads to the same object, array or
\* union dict have the very same Object, and no dict has its Object made,
\* and its properties walked, twice.
C1_ReferenceIdentity ==
    /\ \A i, j \in DOMAIN attached :
            (/\ truthy_str(schema[attached[i].fields].ref)
             /\ truthy_str(schema[attached[j].fields].ref)
             /\ attached[i].ref_node = attached[j].ref_node)
            => props[attached[i].prop].obj = props[attached[j].prop].obj
    /\ \A i, j \in DOMAIN walked : walked[i] = walked[j] => i = j

-----------------------------------------------------------------------------
(* Layout                                                                  *)

\* The children of the Object obj followed by its properties
C4_Members(obj) == objects[obj].object_properties \o objects[obj].properties

\* The bytes the member p of an Object counts for: an array 2, any other
\* child its data_size, a string 2, a boolean 1, a number 4, an integer the
\* eighth of its width (an enum is an integer 8 bits wide)
C4_Bytes(p) ==
    IF props[p].obj # 0
    THEN (IF objects[props[p].obj].class = "Array" THEN 2
          ELSE data_size(objects, props, props[p].obj, {}).size)
    ELSE IF props[p].ptype = "string" THEN 2
    ELSE IF props[p].ptype = "boolean" THEN 1
    ELSE IF props[p].ptype = "number" THEN 4
    ELSE (IF truthy(props[p].enum) THEN 8 ELSE props[p].intrange.bits) \div 8

\* C4: the table made for an Object that is no array and no union has one
\* entry per child and property, in that order; the first offset is 0, each
\* further offset is the one before plus the bytes of the member before, and
\* the data_size of the Object is the last offset plus the bytes of the last
\* member.
C4_LayoutAdditive ==
    (pc = "generated" /\ objects[typeinfo.obj].class = "Object") =>
        LET list == typeinfo.proplist
            xs   == C4_Members(typeinfo.obj)
            n    == Len(xs)
        IN  /\ Len(list) = n
            /\ n > 0 => list[1].offset = 0
            /\ \A i \in 1..(n - 1) :
                    list[i + 1].offset = list[i].offset + C4_Bytes(xs[i])
            /\ n > 0 => data_size(objects, props, typeinfo.obj, {})
                            = Size(list[n].offset + C4_Bytes(xs[n]))

\* A table is made for an Object with an array as a child, followed by a
\* number and a boolean
C4_Witness ==
    /\ pc = "generated"
    /\ objects[typeinfo.obj].class = "Object"
    /\ \E i \in DOMAIN objects[typeinfo.obj].object_properties :
            objects[props[objects[typeinfo.obj].object_properties[i]].obj].class = "Array"
    /\ \E i, j \in DOMAIN objects[typeinfo.obj].properties :
            /\ props[objects[typeinfo.obj].properties[i]].ptype = "number"
            /\ props[objects[typeinfo.obj].properties[j]].ptype = "boolean"
    /\ typeinfo.proplist[Len(typeinfo.proplist)].offset = 6

\* The data_size of the variants of the Union obj
C5_Variants(obj) ==
    { data_size(objects, props, props[objects[obj].object_properties[i]].obj, {}).size :
        i \in DOMAIN objects[obj].object_properties }

\* The variant i of the Union obj is an Object of one string and nothing else
C5_OneString(obj, i) ==
    LET variant == objects[props[objects[obj].object_properties[i]].obj]
    IN  /\ variant.class = "Object"
        /\ variant.object_properties = <<>>
        /\ Len(variant.properties) = 1
        /\ props[variant.properties[1]].ptype = "string"

\* C5: the table made for a Union has every variant at offset 0 and the tag
\* after them, at the largest data_size of the variants; the data_size of
\* the Union is that largest size plus the bytes of the tag, which is 3 for
\* two variants of one string each.
C5_UnionSizing ==
    (pc = "generated" /\ objects[typeinfo.obj].class = "Union") =>
        LET u    == objects[typeinfo.obj]
            n    == Len(u.object_properties)
            top  == CHOOSE s \in C5_Variants(typeinfo.obj) :
                        \A t \in C5_Variants(typeinfo.obj) : t <= s
            tag  == props[u.properties[1]]
            size == data_size(objects, props, typeinfo.obj, {})
        IN  /\ n > 0
            /\ Len(u.properties) = 1
            /\ Len(typeinfo.proplist) = n + 1
            /\ \A i \in 1..n : typeinfo.proplist[i].offset = 0
            /\ typeinfo.proplist[n + 1].offset = top
            /\ size = Size(top + tag.intrange.bits \div 8)
            /\ (n = 2 /\ C5_OneString(typeinfo.obj, 1) /\ C5_OneString(typeinfo.obj, 2))
                    => size = Size(3)

\* A table is made for a Union of two variants of different data_size
C5_Witness ==
    /\ pc = "generated"
    /\ objects[typeinfo.obj].class = "Union"
    /\ Cardinality(C5_Variants(typeinfo.obj)) = 2
    /\ typeinfo.proplist[Len(typeinfo.proplist)].offset = 4

-----------------------------------------------------------------------------
(* Defaults and ranges                                                     *)

\* The default of the dict lies within its minimum and maximum; a missing
\* bound of an integer is the limit of a signed 32-bit integer, a missing
\* bound of a number is no bound.
C11_WithinRange(dict) ==
    /\ IF dict.minimum = Absent
       THEN dict.type = StrV("integer") => dict.default.n >= -2147483647 - 1
       ELSE py_leq(dict.minimum, dict.default)
    /\ IF dict.maximum = Absent
       THEN dict.type = StrV("integer") => dict.default.n <= 2147483647
       ELSE py_leq(dict.default, dict.maximum)

\* C11: the construction of an integer or number property whose fields hold
\* a numeric default outside [minimum, maximum] fails, whatever else the
\* fields hold; without an enum, a default of the type of the property that
\* lies inside the range is accepted and kept as the default.
C11_DefaultRangeCheck ==
    (/\ Constructed
     /\ fields.type \in {StrV("integer"), StrV("number")}
     /\ IsNumeric(fields.default)) =>
        /\ ~C11_WithinRange(fields) => (pc = "raised" /\ properties = <<>>)
        /\ (/\ C11_WithinRange(fields)
            /\ ~HasEnum(fields)
            /\ isinstance_of(fields.default, fields.type.s)) =>
                (pc = "parsed" /\ prop.default = fields.default)

\* A default above the maximum, and a default of 0 below the minimum
C11_Witness ==
    /\ pc = "raised"
    /\ fields.type = StrV("integer")
    /\ ~HasEnum(fields)
    /\ fields.default = IntV(0)
    /\ fields.minimum = IntV(1)
    /\ fields.maximum = IntV(10)
    /\ prop.err = "ValueError: outside range"

\* C27: for an integer or number property without a default, or with the
\* default 0, the value 0 is checked against [minimum, maximum]: when the
\* range excludes 0 the construction fails with the range error, whatever
\* else the fields hold; when it includes 0 there is no range error, and
\* without an enum the property is built.
C27_AbsentDefaultZero ==
    (/\ Constructed
     /\ fields.type \in {StrV("integer"), StrV("number")}
     /\ fields.default \in {Absent, IntV(0)}) =>
        /\ ~C11_WithinRange([fields EXCEPT !.default = IntV(0)])
                => (/\ pc = "raised"
                    /\ prop.err = "ValueError: outside range"
                    /\ properties = <<>>)
        /\ C11_WithinRange([fields EXCEPT !.default = IntV(0)])
                => (/\ prop.err # "ValueError: outside range"
                    /\ ~HasEnum(fields) => pc = "parsed")

\* No default, and a range that excludes 0
C27_Witness ==
    /\ pc = "raised"
    /\ fields.type = StrV("number")
    /\ fields.default = Absent
    /\ fields.minimum = IntV(1)
    /\ fields.maximum = IntV(10)
    /\ prop.err = "ValueError: outside range"

-----------------------------------------------------------------------------
(* Failures of the parse                                                   *)

\* C13: a chain of "$ref"s that comes back to a reference it has followed
\* before is detected: the parse ends (it returns or it raises) and never
\* stays in the loop that follows the chain.
C13_CycleDetected == pc # "loop"

-----------------------------------------------------------------------------
(* Scalar references                                                       *)

\* The dict has the key k.  The keys whose value is a dict are the first
\* components of entries.
C14_Has(dict, k) ==
    CASE k = "ref" -> dict.ref # <<>>
      [] k = "title" -> dict.title # NoneName
      [] k = "object" -> dict.object # 0
      [] OTHER -> dict[k] # Absent

\* The fields of the site, and every field of the template whose key the
\* site lacks
C14_Fields(site, template) ==
    [k \in DOMAIN site |->
        IF k = "entries"
        THEN site.entries \o
             SelectSeq(template.entries,
                       LAMBDA e : \A i \in DOMAIN site.entries : site.entries[i][1] # e[1])
        ELSE IF C14_Has(site, k) THEN site[k] ELSE template[k]]

\* C14: a scalar property with a "$ref" is the Property built from the
\* fields of its site and every field of the dict referred to whose key the
\* site lacks (a key at both keeps the value of the site); these are the
\* fields the site holds afterwards, and the dict referred to is unchanged.
C14_ScalarMerge ==
    \A i \in DOMAIN merges :
        merges[i].prop \in DOMAIN props =>
            LET m    == merges[i]
                self == props[m.prop]
            IN  /\ schema[m.fields] = C14_Fields(m.site, m.template)
                /\ self = Property(self.parent, self.name, C14_Fields(m.site, m.template))
                /\ self.obj = 0
                /\ schema[m.ref_node] = m.template

\* A property was built from a site with a default and a minimum of its own
\* and a dict with another minimum and a maximum
C14_Witness ==
    \E i \in DOMAIN merges :
        /\ merges[i].prop \in DOMAIN props
        /\ merges[i].site.default = IntV(5)
        /\ merges[i].site.minimum = IntV(1)
        /\ merges[i].site.maximum = Absent
        /\ merges[i].template.minimum = IntV(0)
        /\ merges[i].template.maximum = IntV(300)
        /\ merges[i].template.default = Absent
        /\ props[merges[i].prop].intrange.minimum = 1
        /\ props[merges[i].prop].intrange.maximum = 300
        /\ props[merges[i].prop].default = IntV(5)

-----------------------------------------------------------------------------
(* Stores                                                                  *)

\* C15: every object, array or union property made from a dict with a
\* "store" is a store of its database: is_store is set, its parent is the
\* Database and its Object's parent is the Database, it is in the list of
\* stores of the Database and it is no child of any Object.  None is made
\* below the root: the parse fails there.
C15_StorePlacement ==
    \A i \in DOMAIN attached :
        schema[attached[i].fields].store # Absent =>
            LET p  == attached[i].prop
                db == props[p].parent.id
            IN  /\ props[p].is_store
                /\ props[p].parent.kind = "Database"
                /\ objects[props[p].obj].parent = db
                /\ \E k \in DOMAIN objects[db].object_properties :
                        objects[db].object_properties[k] = p
                /\ \A o \in DOMAIN objects :
                        objects[o].class # "Database" =>
                            \A k \in DOMAIN objects[o].object_properties :
                                objects[o].object_properties[k] # p

-----------------------------------------------------------------------------
(* Unions                                                                  *)

\* The Property p is a member of a Union
C16_InUnion(p) ==
    /\ props[p].parent.kind = "Property"
    /\ objects[props[props[p].parent.id].obj].class = "Union"

\* C16: while no parse has failed, every option of a union is a property
\* with an Object, made from a dict with a title or a "$ref", and named after
\* it; a union has no scalar but its tag.
C16_VariantsNamedObjects ==
    error = "" =>
        /\ \A i \in DOMAIN attached :
                C16_InUnion(attached[i].prop) =>
                    /\ props[attached[i].prop].obj # 0
                    /\ \/ schema[attached[i].fields].title # NoneName
                       \/ schema[attached[i].fields].ref # <<>>
                    /\ truthy_str(props[attached[i].prop].name)
        /\ \A p \in DOMAIN props :
                (C16_InUnion(p) /\ props[p].obj = 0) => props[p].name = S_tag

\* C17: while no parse has failed or hangs, every Union has at least one
\* variant and exactly one property of its own: the integer `tag`, made after
\* every variant, with the range 0 .. number of variants - 1.
C17_UnionShape ==
    (error = "" /\ pc # "loop") =>
        \A u \in DOMAIN objects :
            objects[u].class = "Union" =>
                LET n   == Len(objects[u].object_properties)
                    own == objects[u].properties
                IN  /\ n >= 1
                    /\ Len(own) = 1
                    /\ props[own[1]].name = S_tag
                    /\ props[own[1]].ptype = "integer"
                    /\ props[own[1]].obj = 0
                    /\ props[own[1]].intrange.minimum = 0
                    /\ props[own[1]].intrange.maximum = n - 1
                    /\ \A k \in 1..n : objects[u].object_properties[k] < own[1]

\* Every document is parsed and holds a Union of two variants
C17_Witness ==
    /\ pc = "parsed"
    /\ \E u \in DOMAIN objects :
            /\ objects[u].class = "Union"
            /\ Len(objects[u].object_properties) = 2
            /\ props[objects[u].properties[1]].intrange.maximum = 1

-----------------------------------------------------------------------------
(* Defaults of objects, arrays and unions                                  *)

\* C18: while no parse has failed, no property that is an object, a union
\* or an array of objects has a "default", at its own dict or at the dict
\* its "$ref" led to; the "default" of a property that is an array of scalars
\* is the default of its Array.
C18_ForbiddenDefaults ==
    error = "" =>
        \A i \in DOMAIN attached :
            LET site == schema[attached[i].fields]
                node == schema[attached[i].ref_node]
                o    == objects[props[attached[i].prop].obj]
            IN  IF o.class = "Array" /\ o.object_properties = <<>>
                THEN /\ site.default # Absent => o.default = site.default
                     /\ node.default # Absent => o.default = node.default
                ELSE /\ site.default = Absent
                     /\ node.default = Absent

-----------------------------------------------------------------------------
(* Types that are not supported                                            *)

\* The dict declares a type that is no key of CPP_TYPENAMES
C19_Unsupported(dict) ==
    /\ dict.oneOf = Absent
    /\ truthy(get(dict.type))
    /\ dict.type.s \notin DOMAIN CPP_TYPENAMES

\* C19: a property whose dict declares a type that is not supported is
\* skipped: no parse fails because of it, and when every database is parsed
\* no Property has that type.
C19_UnsupportedTypeSkipped ==
    (\E i \in DOMAIN schema : C19_Unsupported(schema[i])) =>
        /\ error # "KeyError"
        /\ pc # "failed"
        /\ \A p \in DOMAIN props : props[p].ptype \in DOMAIN CPP_TYPENAMES

-----------------------------------------------------------------------------
(* Missing references                                                      *)

\* The Database of the document that holds the dict i: the dicts of a
\* document are numbered from its root dict on
C12_Document(i) ==
    CHOOSE db \in Databases :
        /\ objects[db].schema <= i
        /\ \A other \in Databases :
                objects[other].schema <= i => objects[other].schema <= objects[db].schema

\* The Database that the reference of the dict i names, 0 when no such
\* document was loaded
C12_Named(i) ==
    IF startswith_hash(schema[i].ref) THEN C12_Document(i)
    ELSE databases_get(objects, partition(schema[i].ref)[1])

\* The path of the reference of the dict i within the document it names
C12_Path(i) ==
    IF startswith_hash(schema[i].ref) THEN SubSeq(schema[i].ref, 3, Len(schema[i].ref))
    ELSE partition(schema[i].ref)[2]

\* Every segment of path exists, from the dict node on
RECURSIVE C12_Exists(_, _)
C12_Exists(node, path) ==
    \/ path = <<>>
    \/ /\ entry(schema[node], partition(path)[1]) # 0
       /\ C12_Exists(entry(schema[node], partition(path)[1]), partition(path)[2])

\* The dict i holds a "$ref" that names a document that was not loaded or a
\* path with a segment that does not exist
C12_Dangling(i) ==
    /\ schema[i].ref # <<>>
    /\ \/ C12_Named(i) = 0
       \/ ~C12_Exists(objects[C12_Named(i)].schema, C12_Path(i))

\* C12: Missing reference: when a dict of a loaded document holds a "$ref"
\* that names a document that was not loaded, or a path with a segment that
\* does not exist in the document it names, generate_database returns no
\* stream and no file is written.
C12_MissingReference ==
    (\E i \in DOMAIN schema : C12_Dangling(i)) => output = <<>> /\ files = <<>>

-----------------------------------------------------------------------------
(* Calling generate_database again                                         *)

\* C20: Emitter idempotence: any two calls of generate_database for the same
\* Database return the same declaration stream and the same definition
\* stream, also when several documents were loaded.
C20_EmitterIdempotent ==
    \A i, j \in DOMAIN output :
        output[i].db = output[j].db
            => /\ output[i].header = output[j].header
               /\ output[i].source = output[j].source

-----------------------------------------------------------------------------
(* An array of the object that is being built                              *)

\* The Property instances above the Property p
RECURSIVE C22_Above(_)
C22_Above(p) ==
    IF props[p].parent.kind = "Database" THEN {}
    ELSE {props[p].parent.id} \cup C22_Above(props[p].parent.id)

\* The ObjectProperty instances above the one of the entry i of `attached`
\* whose Object was made from the dict that the entry i was led to
C22_Builders(i) ==
    { attached[j].prop : j \in { k \in DOMAIN attached :
                                    /\ attached[k].prop \in C22_Above(attached[i].prop)
                                    /\ attached[k].ref_node = attached[i].ref_node } }

\* The items of an array whose "$ref" led to the dict of an Object that was
\* being built
C22_Items ==
    { i \in DOMAIN attached :
        /\ is_item(objects, props, attached[i].prop)
        /\ truthy_str(schema[attached[i].fields].ref)
        /\ C22_Builders(i) # {} }

\* The names of the members of the Object obj, one for each member
C22_Names(obj) ==
    [i \in DOMAIN (objects[obj].object_properties \o objects[obj].properties) |->
        props[(objects[obj].object_properties \o objects[obj].properties)[i]].name]

\* C22: Recursive schemas: when the items of an array are given by a "$ref"
\* to the object that holds the array, or to an object above it,
\* parse_database returns; the Object of the items is the Object that was
\* being built, the same instance, and each of its members was made once.
C22_RecursiveSchemas ==
    /\ cfgfiles \in Recursive => pc \in {"loaded", "parsed", "generated"}
    /\ \A i \in C22_Items :
            /\ pc # "loop"
            /\ \A q \in C22_Builders(i) : props[attached[i].prop].obj = props[q].obj
            /\ \A m, n \in DOMAIN C22_Names(props[attached[i].prop].obj) :
                    m # n => C22_Names(props[attached[i].prop].obj)[m]
                                # C22_Names(props[attached[i].prop].obj)[n]

\* The items of an array are the definition that holds the array, below an
\* object in between, and the documents are parsed
C22_Witness ==
    /\ pc = "parsed"
    /\ \E i \in C22_Items :
            /\ objects[props[attached[i].prop].obj].class = "Object"
            /\ truthy_str(objects[props[attached[i].prop].obj].ref)
            /\ \E q \in C22_Builders(i) : props[props[attached[i].prop].parent.id].parent.id # q
            /\ Len(C22_Names(props[attached[i].prop].obj)) = 1

-----------------------------------------------------------------------------
(* The sizes of the Objects of a parsed model                              *)

\* C29: Layout computation terminates: once parse_database returned for
\* every document, data_size of every Object, Array and Union returns a
\* number; also for an object that holds itself through an array only, and
\* for an object with a child whose "$ref" leads to the object itself or to
\* an object above it.
C29_LayoutTerminates ==
    pc = "parsed" =>
        \A obj \in DOMAIN objects :
            objects[obj].class # "Database"
                => data_size(objects, props, obj, {}).err # "RecursionError"

-----------------------------------------------------------------------------
(* Objects that depend on each other                                       *)

\* The Objects of the object_properties of the Object obj
C24_Children(obj) ==
    { props[objects[obj].object_properties[i]].obj :
        i \in DOMAIN objects[obj].object_properties }

\* The Objects of reached and those reached from them over object_properties
RECURSIVE C24_Closure(_)
C24_Closure(reached) ==
    IF UNION {C24_Children(obj) : obj \in reached} \subseteq reached THEN reached
    ELSE C24_Closure(reached \cup UNION {C24_Children(obj) : obj \in reached})

\* The Objects reached from obj over one or more object_properties
C24_Reachable(obj) == C24_Closure(C24_Children(obj))

\* The Objects that are no Database
C24_Objects == {obj \in DOMAIN objects : objects[obj].class # "Database"}

\* C24: Dependency relation: depends_on(other) of an Object is true exactly
\* when other is reached from the Object over one or more object_properties,
\* at any depth; it returns for Objects that reach themselves; and a < b is
\* true exactly when b depends on a.
C24_DependencyRelation ==
    pc = "parsed" =>
        \A a, b \in C24_Objects :
            /\ depends_on(objects, props, a, b) = (b \in C24_Reachable(a))
            /\ lt(objects, props, a, b) = depends_on(objects, props, b, a)

-----------------------------------------------------------------------------
(* The order of the definitions in the declaration stream                  *)

\* The Objects that the Objects of holders hold as members: their children,
\* and the children of those that are neither referenced nor an array
RECURSIVE C21_Held(_, _)
C21_Held(holders, held) ==
    IF UNION {C24_Children(obj) : obj \in holders} \subseteq held THEN held
    ELSE C21_Held({obj \in UNION {C24_Children(h) : h \in holders} :
                        /\ obj \notin held
                        /\ ~truthy_str(objects[obj].ref)
                        /\ objects[obj].class # "Array"},
                  held \cup UNION {C24_Children(obj) : obj \in holders})

\* The referenced definitions of the Database db
C21_Definitions(db) ==
    { objects[db].object_defs[i][2] : i \in DOMAIN objects[db].object_defs }

\* Where the class of the Object obj is declared in the stream `classes`
C21_Declared(classes, obj) ==
    { i \in DOMAIN classes : classes[i].obj = obj /\ classes[i].depth = 0 }

\* C21: Definition ordering: in the declaration stream of a Database, for
\* two referenced definitions A and B of it where B holds A as a member,
\* directly or below objects that are not referenced and not below an array,
\* the class of A is declared before the class of B.
C21_DefinitionOrdering ==
    \A o \in DOMAIN output :
        \A a, b \in C21_Definitions(output[o].db) :
            (a # b /\ a \in C21_Held({b}, {}))
                => \A i \in C21_Declared(output[o].header.classes, a),
                      j \in C21_Declared(output[o].header.classes, b) : i < j

-----------------------------------------------------------------------------
(* A reference to a reference to a scalar                                  *)

\* The dict that path leads to from the dict node, 0 for none
RECURSIVE C28_Walk(_, _)
C28_Walk(node, path) ==
    IF path = <<>> \/ node = 0 THEN node
    ELSE C28_Walk(entry(schema[node], partition(path)[1]), partition(path)[2])

\* The dict that the "$ref" of the dict i names, in the document that holds
\* the dict i when the "$ref" starts with "#/"
C28_Target(i) ==
    IF C12_Named(i) = 0 THEN 0
    ELSE C28_Walk(objects[C12_Named(i)].schema, C12_Path(i))

\* The dict without a "$ref" that the references lead to from the dict i
RECURSIVE C28_Terminal(_)
C28_Terminal(i) ==
    IF C28_Target(i) = 0 THEN 0
    ELSE IF schema[C28_Target(i)].ref = <<>> THEN C28_Target(i)
    ELSE C28_Terminal(C28_Target(i))

\* The entries of `merges` for a dict whose "$ref" names a dict with a "$ref"
C28_Chains ==
    { i \in DOMAIN merges :
        /\ C28_Target(merges[i].fields) # 0
        /\ schema[C28_Target(merges[i].fields)].ref # <<>> }

\* C28: Chained scalar references: when the "$ref" of a scalar property
\* names a dict B that has a "$ref" itself, the references are followed to
\* the dict C that has none, a "$ref" that starts with "#/" being looked up
\* in the document that holds it; the keys of C that the property lacks are
\* copied to it, and the Property made is the one made from the dict of the
\* property and C alone, whatever keys B has.
C28_ChainedReferences ==
    \A i \in C28_Chains :
        /\ merges[i].ref_node = C28_Terminal(merges[i].fields)
        /\ merges[i].template = schema[C28_Terminal(merges[i].fields)]
        /\ pc \in {"parsed", "generated"} =>
            /\ schema[merges[i].fields] = merge(merges[i].site, merges[i].template)
            /\ props[merges[i].prop]
                    = Property(props[merges[i].prop].parent, props[merges[i].prop].name,
                               merge(merges[i].site,
                                     schema[C28_Terminal(merges[i].fields)]))

\* A property of the document B refers to a definition of the document A
\* that gives a maximum of 7 and a default and refers to "#/$defs/D"; the
\* Property has the range of D and no default
C28_Witness ==
    /\ pc = "parsed"
    /\ \E i \in C28_Chains :
            /\ C12_Document(merges[i].fields) # C12_Document(merges[i].ref_node)
            /\ schema[C28_Target(merges[i].fields)].maximum = IntV(7)
            /\ schema[C28_Target(merges[i].fields)].default = IntV(5)
            /\ schema[C28_Target(merges[i].fields)].ref = RefD
            /\ schema[merges[i].fields].maximum = IntV(300)
            /\ props[merges[i].prop].default = None

-----------------------------------------------------------------------------
(* The table of an ObjectInfo                                              *)

\* The names that the value `alias` gives: one for a str, those of its items
\* for a list, none for any other value
RECURSIVE C25_Names(_)
RECURSIVE C25_NamesOf(_, _)
C25_NamesOf(items, i) ==
    IF i > Len(items) THEN <<>>
    ELSE C25_Names(items[i]) \o C25_NamesOf(items, i + 1)

C25_Names(alias) ==
    IF alias.t = "str" THEN <<chars(alias.s)>>
    ELSE IF alias.t = "list" THEN C25_NamesOf(alias.items, 1)
    ELSE <<>>

\* The aliases of the members of list from the i-th on, each with the index
\* of its member
RECURSIVE C25_Aliases(_, _)
C25_Aliases(list, i) ==
    IF i > Len(list) THEN <<>>
    ELSE [k \in DOMAIN C25_Names(props[list[i]].alias) |->
                [name |-> C25_Names(props[list[i]].alias)[k], index |-> i - 1]]
         \o C25_Aliases(list, i + 1)

\* The identifier of the string s in the string table of typeinfo
C25_Identifier(s) == strings_getitem(typeinfo.keys, typeinfo.values, s).ident

\* C25: Metadata table indexing: the table of an ObjectInfo lists the
\* children of the Object in the order they were made, then its properties
\* in the order they were made, then the aliases; objectCount, propertyCount
\* and aliasCount are the numbers of those entries, a list of aliases
\* counting once for each name; and the offset of an alias is the index, in
\* the table, of the entry of the child or property that has the alias.
C25_TableIndexing ==
    pc = "generated" =>
        LET table   == typeinfo.proplist \o typeinfo.aliaslist
            members == C4_Members(typeinfo.obj)
            aliases == C25_Aliases(members, 1)
            nobj    == Len(objects[typeinfo.obj].object_properties)
        IN  /\ typeinfo.objectCount = nobj
            /\ typeinfo.propertyCount = Len(objects[typeinfo.obj].properties)
            /\ typeinfo.aliasCount = Len(aliases)
            /\ Len(table) = Len(members) + Len(aliases)
            /\ \A i \in 1..Len(members) :
                    /\ table[i].type = IF i <= nobj THEN "Object"
                                       ELSE props[members[i]].property_type
                    /\ table[i].object = props[members[i]].obj
                    /\ objects[typeinfo.obj].class # "Array"
                            => table[i].name = C25_Identifier(props[members[i]].name)
            /\ \A k \in 1..Len(aliases) :
                    /\ table[Len(members) + k].type = "Alias"
                    /\ table[Len(members) + k].name = C25_Identifier(aliases[k].name)
                    /\ table[Len(members) + k].offset = aliases[k].index

\* The table of an Object with one child, three properties and four
\* aliases: one of the child, two of the first property, one of the third
C25_Witness ==
    /\ pc = "generated"
    /\ typeinfo.objectCount = 1
    /\ typeinfo.propertyCount = 3
    /\ typeinfo.aliasCount = 4
    /\ [k \in 1..4 |-> typeinfo.aliaslist[k].offset] = <<0, 1, 1, 3>>

-----------------------------------------------------------------------------
(* The offset of a child                                                   *)

\* C26: Child offset agreement: for an Object that is no union and each of
\* its object_properties p, get_offset(p.obj) is the sum of the data_size of
\* the children before p, which is the offset of the entry of p in the
\* table that generate_typeinfo makes; also when two children have the same
\* referenced Object.
C26_ChildOffsets ==
    (pc = "generated" /\ objects[typeinfo.obj].class # "Union") =>
        \A i \in DOMAIN objects[typeinfo.obj].object_properties :
            get_offset(objects, props, typeinfo.obj,
                       props[objects[typeinfo.obj].object_properties[i]].obj)
                = Size(typeinfo.proplist[i].offset)

-----------------------------------------------------------------------------
(* The store of an outer class                                             *)

\* The outer classes declared for the i-th of the object_properties of the
\* Database db and nested in it
C23_Hierarchy(db, i) ==
    generate_outer_class(objects, props, db, objects[db].object_properties[i], 0)

\* C23: One store per node: each of the object_properties of a Database is
\* a store, and every outer class declared for the i-th of them, or nested
\* in it, has the store_index i, counted from 0; also when the same
\* referenced Object is there in two stores.
C23_OneStore ==
    \A o \in DOMAIN output :
        \A i \in DOMAIN objects[output[o].db].object_properties :
            /\ props[objects[output[o].db].object_properties[i]].is_store
            /\ \A k \in DOMAIN C23_Hierarchy(output[o].db, i) :
                    C23_Hierarchy(output[o].db, i)[k].store_index = i - 1
====
